---- MODULE Spec2Model ----
(***************************************************************************)
(* Model of the UNO-R4 driver layer: the interrupt-driven SCI2 UART of     *)
(* src/src/uart/mod.rs (foreground write / flush / read against the TXI,   *)
(* TEI, RXI and ERI handlers) and the CAN0 mailbox protocol of             *)
(* src/src/can.rs.                                                          *)
(*                                                                         *)
(* Execution model.  One core.  A handler runs to completion and is one    *)
(* action.  Foreground code is cut at every access to state a handler also *)
(* touches (ring-buffer cursors, SCR), so a handler may run between any    *)
(* two such accesses.  cortex_m::asm::wfi() parks the caller until some    *)
(* handler has run after the wait began.                                   *)
(*                                                                         *)
(* Hardware model.  The SCI raises TXI only while SCR.TE and SCR.TIE are   *)
(* set, TEI only while SCR.TEIE is set, RXI only while SCR.RE and SCR.RIE  *)
(* are set; ERI (a receive error) may arrive at any time.                  *)
(***************************************************************************)
EXTENDS Integers, Sequences, FiniteSets, TLC

\* ------------------------------------------------------------------ bounds
\* Capacity of the TX storage handed to Uart::new.
TxCap == 3
\* Capacity of the RX storage handed to Uart::new.
RxCap == 3
\* Bytes are 0..MaxByte.
MaxByte == 1
\* Longest slice passed to one write call.
MaxWrite == 3
\* Total number of bytes the foreground offers to write over a run.
MaxTotal == 4
\* Total number of bytes that arrive on the receive line over a run.
MaxRx == 5
\* Longest destination slice passed to one read call.
MaxRead == 3

Byte == 0..MaxByte

\* All byte sequences of length 0..n.
BSeq(n) == UNION {[1..k -> Byte] : k \in 0..n}

Min(a, b) == IF a <= b THEN a ELSE b

IsPrefix(s, t) == Len(s) <= Len(t) /\ SubSeq(t, 1, Len(s)) = s

VARIABLES
    tx_buf,       \* State.tx_buf: [buf, start, end, len]
    rx_buf,       \* State.rx_buf: [buf, start, end, len]
    scr,          \* SCI2.SCR bits: [te, tie, teie, re, rie]
    tdr,          \* every value written to SCI2.TDR, in order
    w_pc,         \* position of the foreground caller of write / flush
    w_buf,        \* write: the argument buf
    w_data,       \* write: the slice returned by push_slice, [off, n]
    w_len,        \* write: len
    w_reg,        \* write: the last value read from SCR
    tx_accepted,  \* bytes accepted by the write calls that have returned
    r_pc,         \* position of the foreground caller of read
    r_cap,        \* read: buf.len()
    r_data,       \* read: the slice returned by pop_slice, [off, n]
    r_out,        \* read: the bytes copied into buf[..len]
    rx_arrived,   \* number of bytes the receive line has delivered to RDR
    rx_accepted,  \* bytes the RXI handler pushed into rx_buf
    rx_delivered, \* bytes returned by the read calls that have returned
    can_mode,     \* CAN0.CTLR operating mode requested (SLPM, CANM)
    can_mctl,     \* CAN0.MCTL[0..31]: [newdata, recreq, trmreq]
    can_mb,       \* CAN0 mailbox registers [0..31]: [id, dlc, data]
    can_mier,     \* CAN0.MIER: the mailboxes whose interrupt is enabled
    can_irq,      \* the CAN0 transmit-complete vector is pending
    s_pc,         \* position of the foreground caller of send_frame
    s_i,          \* send_frame: the loop index i
    s_frame,      \* send_frame: the argument frame
    s_result,     \* send_frame: the value last returned, "Ok" or "Err"
    s_sends,      \* number of send_frame calls made
    s_idle_at_call, \* some mailbox was idle when send_frame was called
    can_rx_count, \* number of frames the peripheral has stored
    t_pc,         \* position of the foreground caller of try_receive_frame
    t_i,          \* try_receive_frame: the loop index i
    t_frame,      \* try_receive_frame: id, dlc and data as read
    t_result,     \* try_receive_frame: the kind of value last returned
    n_pc,         \* position of the caller of Can::new, "done" after it
    n_bit_config, \* Can::new: the argument bit_config
    can_rstst,    \* CAN0.STR.RSTST: the peripheral is in reset mode
    can_bcr,      \* CAN0.BCR, by its fields
    can_mkr,      \* CAN0.MKR[0..7]
    can_mkivlr,   \* CAN0.MKIVLR, as the set of its bits
    c_pc,         \* position of the caller of configure_mailboxes
    c_i,          \* configure_mailboxes: the mailbox loop index
    c_config,     \* configure_mailboxes: the argument config
    can_idfm,     \* CAN0.CTLR.IDFM: the identifier-format mode
    can_tsrc,     \* CAN0.CTLR.TSRC was written to 1 (timer reset)
    can_tcr,      \* CAN0.TCR: [tste, tstm]
    can_msmr,     \* CAN0.MSMR: the mailbox search mode
    m_pc,         \* position of the caller of a test-mode function
    m_fn,         \* the test-mode function called
    p_op,         \* the pure function last applied, "none" at the start
    p_in,         \* its argument
    p_out,        \* its value
    o_pc,         \* uart_old: position of the caller of serial_print
    o_str,        \* serial_print: the bytes of the argument
    o_index,      \* serial_print: index, the bytes pushed in earlier rounds
    o_buf,        \* uart_old: TX.buffer, the circular buffer, oldest first
    o_scr,        \* uart_old: SCI2.SCR, [te, tie, teie]
    o_tdr,        \* uart_old: SCI2.TDR, the byte last written
    o_sent,       \* uart_old: number of writes to SCI2.TDR
    o_prints      \* uart_old: number of serial_print calls

txVars == <<tx_buf, scr, tdr, w_pc, w_buf, w_data, w_len, w_reg, tx_accepted>>
rxVars == <<rx_buf, r_pc, r_cap, r_data, r_out, rx_arrived, rx_accepted, rx_delivered>>
canVars == <<can_mode, can_mctl, can_mb, can_mier, can_irq,
             s_pc, s_i, s_frame, s_result, s_sends, s_idle_at_call,
             can_rx_count, t_pc, t_i, t_frame, t_result,
             n_pc, n_bit_config, can_rstst, can_bcr, can_mkr, can_mkivlr,
             c_pc, c_i, c_config, can_idfm, can_tsrc, can_tcr, can_msmr,
             m_pc, m_fn>>
ctlVars == <<n_pc, n_bit_config, can_rstst, can_bcr, can_mkr, can_mkivlr,
             c_pc, c_i, c_config>>
recvVars == <<can_rx_count, t_pc, t_i, t_frame, t_result>>
pureVars == <<p_op, p_in, p_out>>
modeRegs == <<can_idfm, can_tsrc, can_tcr, can_msmr, m_pc, m_fn>>
oldVars == <<o_pc, o_str, o_index, o_buf, o_scr, o_tdr, o_sent, o_prints>>
restVars == <<txVars, rxVars, pureVars, modeRegs, oldVars>>
vars == <<txVars, rxVars, canVars, pureVars, oldVars>>

\* ------------------------------------------------- RingBuffer (external)
\* embassy_hal_internal::atomic_ring_buffer::RingBuffer.  The cursors start
\* and end run over 0 .. 2*len-1, so that start = end means empty and a
\* distance of len means full.

NewRing(cap) == [buf |-> [i \in 0..(cap - 1) |-> 0], start |-> 0, end |-> 0, len |-> cap]

Wrap(rb, n) == IF n >= rb.len * 2 THEN n - rb.len * 2 ELSE n

IsEmpty(rb) == rb.start = rb.end

IsFull(rb) == Wrap(rb, rb.start + rb.len) = rb.end

\* Writer::push_buf: the first contiguous free run, [off, n].
PushBuf(rb) ==
    LET empty == rb.start = rb.end
        s == IF rb.start >= rb.len THEN rb.start - rb.len ELSE rb.start
        e == IF rb.end >= rb.len THEN rb.end - rb.len ELSE rb.end
    IN  IF s = e /\ ~empty
        THEN [off |-> 0, n |-> 0]
        ELSE [off |-> e, n |-> IF s > e THEN s - e ELSE rb.len - e]

PushDone(rb, n) == [rb EXCEPT !.end = Wrap(rb, rb.end + n)]

\* Reader::pop_buf: the first contiguous filled run, [off, n].
PopBuf(rb) ==
    LET s == IF rb.start >= rb.len THEN rb.start - rb.len ELSE rb.start
        e == IF rb.end >= rb.len THEN rb.end - rb.len ELSE rb.end
    IN  IF rb.start = rb.end
        THEN [off |-> 0, n |-> 0]
        ELSE [off |-> s, n |-> IF e > s THEN e - s ELSE rb.len - s]

PopDone(rb, n) == [rb EXCEPT !.start = Wrap(rb, rb.start + n)]

\* Writer::push_one: store val in the first free slot; a full buffer is left
\* as it is (the result, false, is what the caller may look at).
PushOne(rb, val) ==
    LET d == PushBuf(rb)
    IN  IF d.n = 0 THEN rb
        ELSE PushDone([rb EXCEPT !.buf[d.off] = val], 1)

\* data[..k].copy_from_slice(&src[..k]) into the storage at d.off.
CopyIn(rb, d, src, k) ==
    [rb EXCEPT !.buf = [i \in DOMAIN rb.buf |->
        IF i >= d.off /\ i < d.off + k THEN src[i - d.off + 1] ELSE rb.buf[i]]]

\* &data[..k] read out of the storage at d.off.
CopyOut(rb, d, k) == [i \in 1..k |-> rb.buf[d.off + i - 1]]

\* ------------------------------------------------ abstract view of a ring
\* Number of bytes held, and the bytes held, oldest first.
Count(rb) == (rb.end - rb.start + 2 * rb.len) % (2 * rb.len)

Contents(rb) == [i \in 1..Count(rb) |-> rb.buf[(rb.start + i - 1) % rb.len]]

\* Storage slots that hold a queued byte.
Occupied(rb) == {(rb.start + i) % rb.len : i \in 0..(Count(rb) - 1)}

\* Length of the run of free slots that begins at the write position and
\* ends at the first occupied slot or at the end of the storage.
FreeRun(rb) ==
    LET e == rb.end % rb.len
    IN  Cardinality({k \in 1..(rb.len - e) :
            \A j \in 0..(k - 1) : (e + j) \notin Occupied(rb)})

\* Length of the run of occupied slots that begins at the read position and
\* ends at the first free slot or at the end of the storage.
FilledRun(rb) ==
    LET s == rb.start % rb.len
    IN  Cardinality({k \in 1..(rb.len - s) :
            \A j \in 0..(k - 1) : (s + j) \in Occupied(rb)})

\* -------------------------------------------------------------- UART state
NoSlice == [off |-> 0, n |-> 0]
NoReg == [te |-> FALSE, tie |-> FALSE, teie |-> FALSE]

TxBits(r) == [te |-> r.te, tie |-> r.tie, teie |-> r.teie]

\* The three transmit states, as (TE, TIE, TEIE).
Idle == [te |-> FALSE, tie |-> FALSE, teie |-> FALSE]
Transmitting == [te |-> TRUE, tie |-> TRUE, teie |-> FALSE]
EndPending == [te |-> TRUE, tie |-> FALSE, teie |-> TRUE]

\* Uart::new / init: buffers initialised, SCR reset, then RE and RIE set.
UartInit ==
    /\ tx_buf = NewRing(TxCap)
    /\ rx_buf = NewRing(RxCap)
    /\ scr = [te |-> FALSE, tie |-> FALSE, teie |-> FALSE, re |-> TRUE, rie |-> TRUE]
    /\ tdr = <<>>
    /\ w_pc = "idle"
    /\ w_buf = <<>>
    /\ w_data = NoSlice
    /\ w_len = 0
    /\ w_reg = NoReg
    /\ tx_accepted = <<>>
    /\ r_pc = "idle"
    /\ r_cap = 0
    /\ r_data = NoSlice
    /\ r_out = <<>>
    /\ rx_arrived = 0
    /\ rx_accepted = <<>>
    /\ rx_delivered = <<>>

\* sci.scr().modify(|_, w| w.tie()._1().teie()._0().te()._1())
ArmTx(r) == [r EXCEPT !.tie = TRUE, !.teie = FALSE, !.te = TRUE]

\* sci.scr().modify(|_, w| w.teie()._0().tie()._0().te()._0())
DisableTx(r) == [r EXCEPT !.teie = FALSE, !.tie = FALSE, !.te = FALSE]

\* ArmTei with the TXI source left enabled.
ArmTei_KeepTie(r) == [r EXCEPT !.teie = TRUE]

\* sci.scr().modify(|_, w| w.teie()._1().tie()._0())
ArmTei(r) == [r EXCEPT !.teie = TRUE, !.tie = FALSE]

\* cortex_m::asm::wfi(): the caller executes wfi and parks; it resumes once a
\* handler has run after that.  A handler that runs before the wfi is
\* executed has been served already and does not resume it.
Park(pc) ==
    CASE pc = "w_wfi_tei" -> "w_parked_tei"
      [] pc = "w_full_wfi" -> "w_parked_full"
      [] pc = "f_wfi" -> "f_parked"
      [] pc = "r_wfi" -> "r_parked"
      [] OTHER -> pc

WakeW(pc) ==
    CASE pc = "w_parked_tei" -> "w_check_tei"
      [] pc = "w_parked_full" -> "w_push_slice"
      [] pc = "f_parked" -> "f_check"
      [] OTHER -> pc

WakeR(pc) == IF pc = "r_parked" THEN "r_pop_slice" ELSE pc

\* ------------------------------------------------- UartTx::write (211-260)
\* WriteLen with the free run taken one short.
WriteLen_OneShort(d, b) == Min(d.n - 1, Len(b))

\* let len = data.len().min(buf.len())
WriteLen(d, b) == Min(d.n, Len(b))

\* WriteBranch that arms at once when it finds the final byte in flight.
WriteBranch_NoWait(reg) ==
    IF ~reg.te \/ reg.teie THEN "w_arm" ELSE "w_ret"

\* WriteBranch that tests TIE where the code tests TE.
WriteBranch_TestsTie(reg) ==
    IF ~reg.tie THEN "w_arm" ELSE "w_ret"

\* WriteBranch that returns without arming when it finds TE clear.
WriteBranch_NoArm(reg) ==
    IF reg.te /\ reg.teie THEN "w_wfi_tei" ELSE "w_ret"

\* Lines 224-228: where write goes after reading SCR.
WriteBranch(reg) ==
    IF ~reg.te THEN "w_arm"
    ELSE IF reg.teie THEN "w_wfi_tei"
    ELSE "w_ret"

\* Line 237: the wait loop's exit test.
TeiDone(reg) == ~reg.teie /\ ~reg.te

\* Lines 252-253: the full-buffer path arms only when TE is clear.
FullBranch(reg) == IF ~reg.te THEN "w_full_arm" ELSE "w_full_wfi"

Write_Call ==
    /\ w_pc = "idle"
    /\ \E b \in BSeq(MaxWrite) :
        /\ Len(tx_accepted) + Len(b) <= MaxTotal
        /\ w_buf' = b
    /\ w_pc' = "w_push_slice"
    /\ UNCHANGED <<tx_buf, scr, tdr, w_data, w_len, w_reg, tx_accepted, rxVars, canVars, pureVars, oldVars>>

Write_PushSlice ==
    /\ w_pc = "w_push_slice"
    /\ w_data' = PushBuf(tx_buf)
    /\ w_pc' = IF w_data'.n # 0 THEN "w_copy" ELSE "w_full_read"
    /\ UNCHANGED <<tx_buf, scr, tdr, w_buf, w_len, w_reg, tx_accepted, rxVars, canVars, pureVars, oldVars>>

Write_Copy ==
    /\ w_pc = "w_copy"
    /\ w_len' = WriteLen(w_data, w_buf)
    /\ tx_buf' = CopyIn(tx_buf, w_data, w_buf, w_len')
    /\ w_pc' = "w_push_done"
    /\ UNCHANGED <<scr, tdr, w_buf, w_data, w_reg, tx_accepted, rxVars, canVars, pureVars, oldVars>>

Write_PushDone ==
    /\ w_pc = "w_push_done"
    /\ tx_buf' = PushDone(tx_buf, w_len)
    /\ w_pc' = "w_read_scr"
    /\ UNCHANGED <<scr, tdr, w_buf, w_data, w_len, w_reg, tx_accepted, rxVars, canVars, pureVars, oldVars>>

Write_ReadScr ==
    /\ w_pc = "w_read_scr"
    /\ w_reg' = TxBits(scr)
    /\ w_pc' = WriteBranch(w_reg')
    /\ UNCHANGED <<tx_buf, scr, tdr, w_buf, w_data, w_len, tx_accepted, rxVars, canVars, pureVars, oldVars>>

Write_Arm ==
    /\ w_pc = "w_arm"
    /\ scr' = ArmTx(scr)
    /\ w_pc' = "w_ret"
    /\ UNCHANGED <<tx_buf, tdr, w_buf, w_data, w_len, w_reg, tx_accepted, rxVars, canVars, pureVars, oldVars>>

Write_WaitCheck ==
    /\ w_pc = "w_check_tei"
    /\ w_reg' = TxBits(scr)
    /\ w_pc' = IF TeiDone(w_reg') THEN "w_arm2" ELSE "w_wfi_tei"
    /\ UNCHANGED <<tx_buf, scr, tdr, w_buf, w_data, w_len, tx_accepted, rxVars, canVars, pureVars, oldVars>>

\* Line 234: wfi inside the wait loop.
Write_WaitWfi ==
    /\ w_pc = "w_wfi_tei"
    /\ w_pc' = Park(w_pc)
    /\ UNCHANGED <<tx_buf, scr, tdr, w_buf, w_data, w_len, w_reg, tx_accepted, rxVars, canVars, pureVars, oldVars>>

Write_ArmAfterTei ==
    /\ w_pc = "w_arm2"
    /\ scr' = ArmTx(scr)
    /\ w_pc' = "w_ret"
    /\ UNCHANGED <<tx_buf, tdr, w_buf, w_data, w_len, w_reg, tx_accepted, rxVars, canVars, pureVars, oldVars>>

\* return Ok(len)
Write_Return ==
    /\ w_pc = "w_ret"
    /\ tx_accepted' = tx_accepted \o SubSeq(w_buf, 1, w_len)
    /\ w_pc' = "idle"
    /\ w_buf' = <<>>
    /\ w_data' = NoSlice
    /\ w_len' = 0
    /\ w_reg' = NoReg
    /\ UNCHANGED <<tx_buf, scr, tdr, rxVars, canVars, pureVars, oldVars>>

Write_FullReadScr ==
    /\ w_pc = "w_full_read"
    /\ w_reg' = TxBits(scr)
    /\ w_pc' = FullBranch(w_reg')
    /\ UNCHANGED <<tx_buf, scr, tdr, w_buf, w_data, w_len, tx_accepted, rxVars, canVars, pureVars, oldVars>>

Write_FullArm ==
    /\ w_pc = "w_full_arm"
    /\ scr' = ArmTx(scr)
    /\ w_pc' = "w_full_wfi"
    /\ UNCHANGED <<tx_buf, tdr, w_buf, w_data, w_len, w_reg, tx_accepted, rxVars, canVars, pureVars, oldVars>>

\* Line 257: wfi on the full-buffer path, then the outer loop again.
Write_FullWfi ==
    /\ w_pc = "w_full_wfi"
    /\ w_pc' = Park(w_pc)
    /\ UNCHANGED <<tx_buf, scr, tdr, w_buf, w_data, w_len, w_reg, tx_accepted, rxVars, canVars, pureVars, oldVars>>

\* ------------------------------------------------- UartTx::flush (262-273)
\* FlushDone that tests for room instead of emptiness.
FlushDone_NotFull(rb) == ~IsFull(rb)

\* Line 265: state.tx_buf.is_empty()
FlushDone(rb) == IsEmpty(rb)

Flush_Call ==
    /\ w_pc = "idle"
    /\ w_pc' = "f_check"
    /\ UNCHANGED <<tx_buf, scr, tdr, w_buf, w_data, w_len, w_reg, tx_accepted, rxVars, canVars, pureVars, oldVars>>

Flush_Check ==
    /\ w_pc = "f_check"
    /\ w_pc' = IF FlushDone(tx_buf) THEN "f_ret" ELSE "f_wfi"
    /\ UNCHANGED <<tx_buf, scr, tdr, w_buf, w_data, w_len, w_reg, tx_accepted, rxVars, canVars, pureVars, oldVars>>

\* Line 270: wfi, then the loop again.
Flush_Wfi ==
    /\ w_pc = "f_wfi"
    /\ w_pc' = Park(w_pc)
    /\ UNCHANGED <<tx_buf, scr, tdr, w_buf, w_data, w_len, w_reg, tx_accepted, rxVars, canVars, pureVars, oldVars>>

\* return Ok(())
Flush_Return ==
    /\ w_pc = "f_ret"
    /\ w_pc' = "idle"
    /\ UNCHANGED <<tx_buf, scr, tdr, w_buf, w_data, w_len, w_reg, tx_accepted, rxVars, canVars, pureVars, oldVars>>

\* ------------------------------------------------------ interrupt handlers
\* What a handler leaves alone in the foreground callers: everything but a
\* parked caller's position.
HandlerWakes ==
    /\ w_pc' = WakeW(w_pc)
    /\ r_pc' = WakeR(r_pc)
    /\ UNCHANGED <<w_buf, w_data, w_len, w_reg, tx_accepted>>
    /\ UNCHANGED <<r_cap, r_data, r_out, rx_delivered>>

\* TxiEffect that sends the byte at the storage base, not at the read cursor.
TxiEffect_BaseByte(rb, r, log) ==
    LET data == PopBuf(rb)
    IN  IF data.n # 0
        THEN LET rb2 == PopDone(rb, 1)
             IN  [buf |-> rb2,
                  scr |-> IF IsEmpty(rb2) THEN ArmTei(r) ELSE r,
                  tdr |-> Append(log, rb.buf[0])]
        ELSE [buf |-> rb, scr |-> DisableTx(r), tdr |-> log]

\* The effect of TXI_Handler::on_interrupt on (tx_buf, scr, tdr).
TxiEffect(rb, r, log) ==
    LET data == PopBuf(rb)
    IN  IF data.n # 0
        THEN LET rb2 == PopDone(rb, 1)
             IN  [buf |-> rb2,
                  scr |-> IF IsEmpty(rb2) THEN ArmTei(r) ELSE r,
                  tdr |-> Append(log, rb.buf[data.off])]
        ELSE [buf |-> rb, scr |-> DisableTx(r), tdr |-> log]

TXI_Handler ==
    /\ scr.te /\ scr.tie
    /\ LET e == TxiEffect(tx_buf, scr, tdr)
       IN  /\ tx_buf' = e.buf
           /\ scr' = e.scr
           /\ tdr' = e.tdr
    /\ HandlerWakes
    /\ UNCHANGED <<rx_buf, rx_arrived, rx_accepted, canVars, pureVars, oldVars>>

TEI_Handler ==
    /\ scr.teie
    /\ scr' = DisableTx(scr)
    /\ HandlerWakes
    /\ UNCHANGED <<tx_buf, tdr, rx_buf, rx_arrived, rx_accepted, canVars, pureVars, oldVars>>

\* Clears the receive-error flags of SSR, which nothing else here reads.
ERI_Handler ==
    /\ HandlerWakes
    /\ UNCHANGED <<tx_buf, scr, tdr, rx_buf, rx_arrived, rx_accepted, canVars, pureVars, oldVars>>

\* RxiEffect that makes room by discarding the oldest queued byte.
RxiEffect_OverwriteOldest(rb, byte) ==
    IF PushBuf(rb).n = 0 THEN PushOne(PopDone(rb, 1), byte) ELSE PushOne(rb, byte)

\* RXI_Handler::on_interrupt, lines 76-82: writer.push_one(byte).
RxiEffect(rb, byte) == PushOne(rb, byte)

\* The bool push_one returns: whether the byte went into the buffer.
PushOneOk(rb) == PushBuf(rb).n # 0

RXI_Handler ==
    /\ scr.re /\ scr.rie
    /\ rx_arrived < MaxRx
    /\ \E byte \in Byte :
        /\ rx_buf' = RxiEffect(rx_buf, byte)
        /\ rx_accepted' = IF PushOneOk(rx_buf) THEN Append(rx_accepted, byte)
                          ELSE rx_accepted
    /\ rx_arrived' = rx_arrived + 1
    /\ HandlerWakes
    /\ UNCHANGED <<tx_buf, scr, tdr, canVars, pureVars, oldVars>>

\* --------------------------------------------------- UartRx::read (295-314)
\* ReadLen with the filled run taken one short.
ReadLen_OneShort(d, cap) == Min(d.n - 1, cap)

\* let len = data.len().min(buf.len())
ReadLen(d, cap) == Min(d.n, cap)

\* ReadPopCount that releases the whole slice pop_slice returned.
ReadPopCount_WholeSlice(d, out) == d.n

\* Line 305: reader.pop_done(len)
ReadPopCount(d, out) == Len(out)

Read_Call ==
    /\ r_pc = "idle"
    /\ r_cap' \in 0..MaxRead
    /\ r_pc' = "r_pop_slice"
    /\ UNCHANGED <<rx_buf, r_data, r_out, rx_arrived, rx_accepted, rx_delivered, txVars, canVars, pureVars, oldVars>>

Read_PopSlice ==
    /\ r_pc = "r_pop_slice"
    /\ r_data' = PopBuf(rx_buf)
    /\ r_pc' = IF r_data'.n # 0 THEN "r_copy" ELSE "r_wfi"
    /\ UNCHANGED <<rx_buf, r_cap, r_out, rx_arrived, rx_accepted, rx_delivered, txVars, canVars, pureVars, oldVars>>

Read_Copy ==
    /\ r_pc = "r_copy"
    /\ r_out' = CopyOut(rx_buf, r_data, ReadLen(r_data, r_cap))
    /\ r_pc' = "r_pop_done"
    /\ UNCHANGED <<rx_buf, r_cap, r_data, rx_arrived, rx_accepted, rx_delivered, txVars, canVars, pureVars, oldVars>>

Read_PopDone ==
    /\ r_pc = "r_pop_done"
    /\ rx_buf' = PopDone(rx_buf, ReadPopCount(r_data, r_out))
    /\ r_pc' = "r_ret"
    /\ UNCHANGED <<r_cap, r_data, r_out, rx_arrived, rx_accepted, rx_delivered, txVars, canVars, pureVars, oldVars>>

\* return Ok(len)
Read_Return ==
    /\ r_pc = "r_ret"
    /\ rx_delivered' = rx_delivered \o r_out
    /\ r_pc' = "idle"
    /\ r_cap' = 0
    /\ r_data' = NoSlice
    /\ r_out' = <<>>
    /\ UNCHANGED <<rx_buf, rx_arrived, rx_accepted, txVars, canVars, pureVars, oldVars>>

\* Line 310: wfi, then the loop again.
Read_Wfi ==
    /\ r_pc = "r_wfi"
    /\ r_pc' = Park(r_pc)
    /\ UNCHANGED <<rx_buf, r_cap, r_data, r_out, rx_arrived, rx_accepted, rx_delivered, txVars, canVars, pureVars, oldVars>>

\* ------------------------------------------------------------ CAN driver
\* The CAN0 peripheral of src/src/can.rs.  The foreground calls
\* configure_mailboxes, start and send_frame one after the other, in the
\* order of examples/src/bin/main.rs: the mailboxes are configured before
\* any frame is sent or received, and frames are sent after start.
\* send_frame is cut at each access to a mailbox control register, which
\* the hardware and TxHandler also write.  The hardware completes a requested
\* transmission at any time in operation mode; a completion in a mailbox
\* whose MIER bit is set makes the transmit vector pending, and TxHandler
\* then runs atomically like every other handler.

\* for i in 0..32: the number of mailboxes
NumMailboxes == 32
MaxSends == 3  \* send_frame calls in one run

Mailboxes == 0 .. (NumMailboxes - 1)

\* The reset value of a mailbox control register: write(|w| w.bits(0)).
MctlClear == [newdata |-> FALSE, recreq |-> FALSE, trmreq |-> FALSE]

\* mctl_tx()[i].write(|w| w.trmreq()._1()): a write, not a modify, so every
\* other bit takes its reset value.
MctlTrmreq_ReqNotSet == MctlClear
MctlTrmreq == [MctlClear EXCEPT !.trmreq = TRUE]

\* mctl_rx()[i].modify(|_, w| w.recreq()._1())
MctlSetRecreq(r) == [r EXCEPT !.recreq = TRUE]

\* MailboxId, the 32-bit value of a mailbox identifier register, held by
\* its bit fields, most significant first: IDE (bit 31), RTR (bit 30), a
\* reserved bit, SID (bits 18..28) and EID (bits 0..17).  MailboxId::new()
\* has every field at its default.
MailboxIdNew ==
    [IDE |-> FALSE, RTR |-> FALSE, reserved |-> FALSE, SID |-> 0, EID |-> 0]

\* MailboxId::from(Id::Standard(id)): Self::new().with_SID(id.as_raw())
MailboxIdFromStandard_SetsIde(sid) == [MailboxIdNew EXCEPT !.SID = sid, !.IDE = TRUE]
MailboxIdFromStandard(sid) == [MailboxIdNew EXCEPT !.SID = sid]

\* embedded_can::ExtendedId::standard_id(): the base identifier, bits 18..28
\* of the 29-bit identifier.
ExtendedStandardId(raw) == raw \div 262144

\* MailboxId::from(Id::Extended(id)): eid = raw >> 11, sid = standard_id()
MailboxIdFromExtended(raw) ==
    [MailboxIdNew EXCEPT !.IDE = TRUE,
                         !.SID = ExtendedStandardId(raw),
                         !.EID = raw \div 2048]

\* impl From<Id> for MailboxId; an Id is [kind, raw].
MailboxIdFrom(id) ==
    IF id.kind = "Standard" THEN MailboxIdFromStandard(id.raw)
    ELSE MailboxIdFromExtended(id.raw)

\* MailboxId::is_extended(): self.IDE() || self.EID() != 0
MailboxIdIsExtended_IdeOnly(m) == m.IDE
MailboxIdIsExtended(m) == m.IDE \/ m.EID # 0

\* impl From<MailboxId> for Id: (eid << 11) | SID when extended.
IdFromMailboxId(m) ==
    IF m.IDE \/ m.EID # 0
    THEN [kind |-> "Extended", raw |-> (m.EID * 2048) + m.SID]
    ELSE [kind |-> "Standard", raw |-> m.SID]

\* Option::None
None == [none |-> TRUE]

\* Frame::new(id, data): None when data is longer than 8 bytes; otherwise
\* dlc is the data length and data is zero padded to 8.
FrameNewOption_NoneFromEight(id, d) ==
    IF Len(d) >= 8 THEN None
    ELSE [id   |-> MailboxIdFrom(id),
          dlc  |-> Len(d),
          data |-> [k \in 0 .. 7 |-> IF k < Len(d) THEN d[k + 1] ELSE 0]]
FrameNewOption(id, d) ==
    IF Len(d) > 8 THEN None
    ELSE [id   |-> MailboxIdFrom(id),
          dlc  |-> Len(d),
          data |-> [k \in 0 .. 7 |-> IF k < Len(d) THEN d[k + 1] ELSE 0]]

\* Frame::new(StandardId::new(sid).unwrap(), data).unwrap()
FrameNew(sid, d) == FrameNewOption([kind |-> "Standard", raw |-> sid], d)

\* Frame::new(ExtendedId::new(raw).unwrap(), data).unwrap()
FrameNewExtended(raw, d) == FrameNewOption([kind |-> "Extended", raw |-> raw], d)

\* Frame::new_remote(id, dlc): None when dlc is above 8; otherwise the
\* identifier is MailboxId::from(id) and the data bytes are 0.
FrameNewRemote(id, dlc) ==
    IF dlc > 8 THEN None
    ELSE [id   |-> MailboxIdFrom(id),
          dlc  |-> dlc,
          data |-> [k \in 0 .. 7 |-> 0]]

\* Frame::is_remote_frame(): self.id.RTR()
FrameIsRemote(f) == f.id.RTR

\* Frame::id(): self.id.into()
FrameId(f) == IdFromMailboxId(f.id)

\* Frame::dlc(): self.dlc as usize
FrameDlc(f) == f.dlc

\* Frame::data(): the first dlc bytes of the data array.
FrameData_AllEight(f) == [k \in 0 .. 7 |-> f.data[k]]
FrameData(f) == [k \in 0 .. (f.dlc - 1) |-> f.data[k]]

\* The frames handed to send_frame.
Frames ==
    {FrameNewExtended(1752542, <<>>), FrameNew(291, <<255>>),
     FrameNew(1, <<1, 2>>)}

NoFrame == FrameNew(0, <<>>)

MailboxClear == [id |-> MailboxIdNew, dlc |-> 0, data |-> [k \in 0 .. 7 |-> 0]]

\* BitConfig::new_checked: the range test, lines 373-381.
BitConfigValid_Tseg1From3(brp_scale, tseg1_tq, tseg2_tq, sjw_tq) ==
    ~(\/ brp_scale > 1024 \/ brp_scale = 0
      \/ tseg1_tq < 3 \/ tseg1_tq > 16
      \/ tseg2_tq < 2 \/ tseg2_tq > 8
      \/ sjw_tq < 1 \/ sjw_tq > 4)
BitConfigValid(brp_scale, tseg1_tq, tseg2_tq, sjw_tq) ==
    ~(\/ brp_scale > 1024 \/ brp_scale = 0
      \/ tseg1_tq < 4 \/ tseg1_tq > 16
      \/ tseg2_tq < 2 \/ tseg2_tq > 8
      \/ sjw_tq < 1 \/ sjw_tq > 4)

\* BitConfig::new_checked(cclks, brp_scale, tseg1_tq, tseg2_tq, sjw_tq):
\* None, or the register fields CCLKS, BRP, SJW, TSEG1, TSEG2.
BitConfigNewChecked(cclks, brp_scale, tseg1_tq, tseg2_tq, sjw_tq) ==
    IF ~BitConfigValid(brp_scale, tseg1_tq, tseg2_tq, sjw_tq)
    THEN [kind |-> "None"]
    ELSE [kind |-> "Some", CCLKS |-> cclks, BRP |-> brp_scale - 1,
          SJW |-> sjw_tq - 1, TSEG1 |-> tseg1_tq - 1, TSEG2 |-> tseg2_tq - 1]

\* BitConfig::into_bits(): the u32 of the bitfield, by its two 16-bit
\* halves.  Fields are packed from bit 0 in the order of the struct: CCLKS
\* (1), reserved (7), TSEG2 (3), reserved (1), SJW (2), reserved (2) in
\* the low half; BRP (10), reserved (2), TSEG1 (4) in the high half.  A
\* setter keeps the low bits of its argument that fit the field.
BitConfigIntoBits_TsegSwapped(b) ==
    [lo |-> (IF b.CCLKS THEN 1 ELSE 0) + (b.TSEG1 % 8) * 256
                + (b.SJW % 4) * 4096,
     hi |-> (b.BRP % 1024) + (b.TSEG2 % 16) * 4096]
BitConfigIntoBits(b) ==
    [lo |-> (IF b.CCLKS THEN 1 ELSE 0) + (b.TSEG2 % 8) * 256
                + (b.SJW % 4) * 4096,
     hi |-> (b.BRP % 1024) + (b.TSEG1 % 16) * 4096]

\* MailboxConfig::default(): every mailbox transmits, no interrupt.
ConfigDefault == [i \in Mailboxes |-> [rx |-> FALSE, interrupt |-> FALSE]]

\* MailboxConfig::set_mailbox_receiver(index)
SetMailboxReceiver(c, index) ==
    IF index < NumMailboxes
    THEN [c EXCEPT ![index] =
             [rx |-> TRUE, interrupt |-> FALSE, mask_valid |-> TRUE]]
    ELSE c

\* MailboxConfig::enable_all_interrupts()
EnableAllInterrupts(c) == [i \in Mailboxes |-> [c[i] EXCEPT !.interrupt = TRUE]]

\* MailboxConfig::mier(): the set of bits of the MIER value.
Mier(c) == {i \in Mailboxes : c[i].interrupt}

\* MailboxConfig::mkivlr(): the set of bits of the MKIVLR value, the
\* receive mailboxes whose mask is not valid.
Mkivlr_ValidMasks(c) == {i \in Mailboxes : c[i].rx /\ c[i].mask_valid}
Mkivlr(c) == {i \in Mailboxes : c[i].rx /\ ~c[i].mask_valid}

\* The configurations the caller builds: the default one with the mailboxes
\* outside tx made receivers, with or without enable_all_interrupts.
TxSets == {{}, {0}, {31}, {0, 1}, {7, 31}, Mailboxes}

MakeConfig(tx, int) ==
    LET c == [i \in Mailboxes |->
                 IF i \in tx THEN ConfigDefault[i]
                 ELSE SetMailboxReceiver(ConfigDefault, i)[i]]
    IN  IF int THEN EnableAllInterrupts(c) ELSE c

Configs == {MakeConfig(tx, int) : tx \in TxSets, int \in BOOLEAN}

\* The mask registers before configure_mailboxes has written them.
MkrUnwritten == [k \in 0 .. 7 |-> [kind |-> "unwritten"]]

\* The bit-timing register before Can::new has written it.
BcrUnwritten == [kind |-> "unwritten"]

\* No configure_mailboxes call is in progress.
NoConfig == [i \in Mailboxes |-> [kind |-> "none"]]

\* CTLR.IDFM: 00 standard, 01 extended, 10 mixed identifier mode.  No
\* function of the driver writes the field; it is 00 after an MCU reset and
\* keeps what the application wrote through the peripheral access crate.
IdfmStandard == "00"
IdfmMixed == "10"
IdfmModes == {"00", "01", "10"}

\* configure_ide_bit(&mut id): id.set_IDE(false) unless IDFM is _10.
ConfigureIdeBit_ClearsAlways(idfm, id) == [id EXCEPT !.IDE = FALSE]
ConfigureIdeBit(idfm, id) ==
    IF idfm # IdfmMixed THEN [id EXCEPT !.IDE = FALSE] ELSE id

\* MailboxRxConfig.id as set_mailbox_receiver sets it.
RxConfigId == [kind |-> "Standard", raw |-> 0]

\* TCR and MSMR after an MCU reset.
TcrReset == [tste |-> FALSE, tstm |-> "00"]
MsmrReset == "00"

\* The mailbox registers and the callers of send_frame, try_receive_frame
\* and configure_mailboxes when Can::new is entered: the mailbox control
\* registers hold their reset value and no interrupt is enabled.
CanRegsInit ==
    /\ can_mctl = [i \in Mailboxes |-> MctlClear]
    /\ can_mb = [i \in Mailboxes |-> MailboxClear]
    /\ can_mier = {}
    /\ can_irq = FALSE
    /\ s_pc = "idle"
    /\ s_i = 0
    /\ s_frame = NoFrame
    /\ s_result = "None"
    /\ s_sends = 0
    /\ s_idle_at_call = FALSE
    /\ can_rx_count = 0
    /\ t_pc = "idle"
    /\ t_i = 0
    /\ t_frame = NoFrame
    /\ t_result = "NoCall"
    /\ can_mkr = MkrUnwritten
    /\ can_mkivlr = {}
    /\ c_pc = "idle"
    /\ c_i = 0
    /\ c_config = NoConfig
    /\ can_tsrc = FALSE
    /\ can_tcr = TcrReset
    /\ can_msmr = MsmrReset
    /\ m_pc = "idle"
    /\ m_fn = "none"

\* Can::new(can, bit_config, irq) has returned, with the bit_config of
\* examples/src/bin/main.rs: halt mode is requested and reached.
CanInit ==
    /\ CanRegsInit
    /\ can_mode = "Halt"
    /\ n_pc = "done"
    /\ n_bit_config = BitConfigNewChecked(FALSE, 3, 5, 2, 1)
    /\ can_bcr = BitConfigNewChecked(FALSE, 3, 5, 2, 1)
    /\ can_rstst = FALSE
    /\ can_idfm = IdfmStandard

\* The bit_config arguments handed to Can::new.
BitConfigs ==
    {BitConfigNewChecked(FALSE, 3, 5, 2, 1),
     BitConfigNewChecked(TRUE, 1024, 16, 8, 4)}

\* Can::new is entered.  After an MCU reset the peripheral sleeps in reset
\* mode with STR.RSTST set; new "will reset from any mode", so it is also
\* entered with the peripheral halted or operating and RSTST clear.
CanPowerOn ==
    /\ CanRegsInit
    /\ n_pc = "n_reset"
    /\ n_bit_config \in BitConfigs
    /\ can_bcr = BcrUnwritten
    /\ \/ can_mode = "Sleep" /\ can_rstst = TRUE
       \/ can_mode \in {"Halt", "Operation"} /\ can_rstst = FALSE
    /\ can_idfm \in IdfmModes

\* The peripheral reaches the reset mode that CTLR requests, and leaves it
\* when halt or operation mode is requested.
Hw_ResetEntered ==
    /\ can_mode = "Reset" /\ ~can_rstst
    /\ can_rstst' = TRUE
    /\ UNCHANGED <<can_mode, can_mctl, can_mb, can_mier, can_irq, s_pc, s_i,
                   s_frame, s_result, s_sends, s_idle_at_call, recvVars,
                   n_pc, n_bit_config, can_bcr, can_mkr, can_mkivlr, c_pc,
                   c_i, c_config, restVars>>

Hw_ResetLeft ==
    /\ can_mode \in {"Halt", "Operation"} /\ can_rstst
    /\ can_rstst' = FALSE
    /\ UNCHANGED <<can_mode, can_mctl, can_mb, can_mier, can_irq, s_pc, s_i,
                   s_frame, s_result, s_sends, s_idle_at_call, recvVars,
                   n_pc, n_bit_config, can_bcr, can_mkr, can_mkivlr, c_pc,
                   c_i, c_config, restVars>>

\* go_to_mode(mode): the mode CTLR requests after the call, by the mode it
\* requested before.  The arms for Reset, Halt and Operation write CANM and
\* clear SLPM, the arm for Sleep sets SLPM, the arm for BusOff is empty.
CanModes == {"Sleep", "Reset", "Halt", "Operation", "BusOff"}
GoToMode(ctlr, mode) == IF mode = "BusOff" THEN ctlr ELSE mode

\* can.go_to_mode(CanMode::Reset)
New_RequestReset ==
    /\ n_pc = "n_reset"
    /\ can_mode' = GoToMode(can_mode, "Reset")
    /\ n_pc' = "n_poll"
    /\ UNCHANGED <<can_mctl, can_mb, can_mier, can_irq, s_pc, s_i, s_frame,
                   s_result, s_sends, s_idle_at_call, recvVars, n_bit_config,
                   can_rstst, can_bcr, can_mkr, can_mkivlr, c_pc, c_i,
                   c_config, restVars>>

\* while can.reg.str.read().rstst().bit_is_clear() {}
NewPollDone_NoWait(rstst) == TRUE
NewPollDone(rstst) == rstst

\* One read of STR in the loop: the loop ends when RSTST is set.
New_Poll ==
    /\ n_pc = "n_poll"
    /\ n_pc' = IF NewPollDone(can_rstst) THEN "n_bcr" ELSE "n_poll"
    /\ UNCHANGED <<can_mode, can_mctl, can_mb, can_mier, can_irq, s_pc, s_i,
                   s_frame, s_result, s_sends, s_idle_at_call, recvVars,
                   n_bit_config, can_rstst, can_bcr, can_mkr, can_mkivlr,
                   c_pc, c_i, c_config, restVars>>

\* p.CAN0.bcr.write(|w| w.bits(bit_config.into_bits()))
New_WriteBcr ==
    /\ n_pc = "n_bcr"
    /\ can_bcr' = n_bit_config
    /\ n_pc' = "n_halt"
    /\ UNCHANGED <<can_mode, can_mctl, can_mb, can_mier, can_irq, s_pc, s_i,
                   s_frame, s_result, s_sends, s_idle_at_call, recvVars,
                   n_bit_config, can_rstst, can_mkr, can_mkivlr, c_pc, c_i,
                   c_config, restVars>>

\* can.go_to_mode(CanMode::Halt); the constructor returns.
New_RequestHalt ==
    /\ n_pc = "n_halt"
    /\ can_mode' = GoToMode(can_mode, "Halt")
    /\ n_pc' = "done"
    /\ UNCHANGED <<can_mctl, can_mb, can_mier, can_irq, s_pc, s_i, s_frame,
                   s_result, s_sends, s_idle_at_call, recvVars, n_bit_config,
                   can_rstst, can_bcr, can_mkr, can_mkivlr, c_pc, c_i,
                   c_config, restVars>>

\* Mask::accept_all() and Mask::mkr(): the MKR value of a mask, the
\* MailboxId of its id with IDE clear.
MaskAcceptAll == [id |-> [kind |-> "Standard", raw |-> 0]]
MaskMkr(mask) == [MailboxIdFrom(mask.id) EXCEPT !.IDE = FALSE]

\* config.masks: every MailboxConfig holds eight accept_all masks.
ConfigMasks == [k \in 0 .. 7 |-> MaskAcceptAll]

\* The control register configure_mailboxes leaves in a mailbox: cleared,
\* then RECREQ set in a receiver.
ConfiguredMctl_RecreqInAll(mode) == MctlSetRecreq(MctlClear)
ConfiguredMctl(mode) == IF mode.rx THEN MctlSetRecreq(MctlClear) ELSE MctlClear

\* configure_mailboxes(config) is called, before any frame is sent or
\* received.
Cfg_Call ==
    /\ s_pc = "idle" /\ t_pc = "idle" /\ c_pc = "idle" /\ m_pc = "idle"
    /\ n_pc = "done"
    /\ s_sends = 0 /\ can_rx_count = 0
    /\ \E config \in Configs : c_config' = config
    /\ c_pc' = "c_halt"
    /\ UNCHANGED <<can_mode, can_mctl, can_mb, can_mier, can_irq, s_pc, s_i,
                   s_frame, s_result, s_sends, s_idle_at_call, recvVars,
                   n_pc, n_bit_config, can_rstst, can_bcr, can_mkr,
                   can_mkivlr, c_i, restVars>>

\* self.go_to_mode(CanMode::Halt)
Cfg_RequestHalt ==
    /\ c_pc = "c_halt"
    /\ can_mode' = GoToMode(can_mode, "Halt")
    /\ c_pc' = "c_masks"
    /\ UNCHANGED <<can_mctl, can_mb, can_mier, can_irq, s_pc, s_i, s_frame,
                   s_result, s_sends, s_idle_at_call, recvVars, n_pc,
                   n_bit_config, can_rstst, can_bcr, can_mkr, can_mkivlr,
                   c_i, c_config, restVars>>

\* for (i, mask) in config.masks: mkr[i].write(mask.mkr())
Cfg_WriteMasks ==
    /\ c_pc = "c_masks"
    /\ can_mkr' = [k \in 0 .. 7 |-> MaskMkr(ConfigMasks[k])]
    /\ c_pc' = "c_mier"
    /\ UNCHANGED <<can_mode, can_mctl, can_mb, can_mier, can_irq, s_pc, s_i,
                   s_frame, s_result, s_sends, s_idle_at_call, recvVars,
                   n_pc, n_bit_config, can_rstst, can_bcr, can_mkivlr, c_i,
                   c_config, restVars>>

\* mier().write(config.mier())
Cfg_WriteMier ==
    /\ c_pc = "c_mier"
    /\ can_mier' = Mier(c_config)
    /\ c_pc' = "c_mkivlr"
    /\ UNCHANGED <<can_mode, can_mctl, can_mb, can_irq, s_pc, s_i, s_frame,
                   s_result, s_sends, s_idle_at_call, recvVars, n_pc,
                   n_bit_config, can_rstst, can_bcr, can_mkr, can_mkivlr,
                   c_i, c_config, restVars>>

\* mkivlr.write(config.mkivlr()); the mailbox loop starts at i = 0.
Cfg_WriteMkivlr ==
    /\ c_pc = "c_mkivlr"
    /\ can_mkivlr' = Mkivlr(c_config)
    /\ c_i' = 0
    /\ c_pc' = "c_mailbox"
    /\ UNCHANGED <<can_mode, can_mctl, can_mb, can_mier, can_irq, s_pc, s_i,
                   s_frame, s_result, s_sends, s_idle_at_call, recvVars,
                   n_pc, n_bit_config, can_rstst, can_bcr, can_mkr, c_config,
                   restVars>>

\* One iteration of the mailbox loop: MCTL[i] written to 0 twice; in a
\* receiver RECREQ is set and the id register is written with the id of
\* the mailbox's config, Id::Standard(StandardId::ZERO).
Cfg_Mailbox ==
    /\ c_pc = "c_mailbox"
    /\ can_mctl' = [can_mctl EXCEPT ![c_i] = ConfiguredMctl(c_config[c_i])]
    /\ can_mb' = IF c_config[c_i].rx
                 THEN [can_mb EXCEPT ![c_i].id =
                          ConfigureIdeBit(can_idfm, MailboxIdFrom(RxConfigId))]
                 ELSE can_mb
    /\ c_i' = c_i + 1
    /\ c_pc' = IF c_i + 1 < NumMailboxes THEN "c_mailbox" ELSE "c_ret"
    /\ UNCHANGED <<can_mode, can_mier, can_irq, s_pc, s_i, s_frame, s_result,
                   s_sends, s_idle_at_call, recvVars, n_pc, n_bit_config,
                   can_rstst, can_bcr, can_mkr, can_mkivlr, c_config,
                   restVars>>

\* configure_mailboxes returns.
Cfg_Return ==
    /\ c_pc = "c_ret"
    /\ c_pc' = "idle"
    /\ c_config' = NoConfig
    /\ UNCHANGED <<can_mode, can_mctl, can_mb, can_mier, can_irq, s_pc, s_i,
                   s_frame, s_result, s_sends, s_idle_at_call, recvVars,
                   n_pc, n_bit_config, can_rstst, can_bcr, can_mkr,
                   can_mkivlr, c_i, restVars>>

\* The mode one of the test-mode functions requests before it writes TCR:
\* self.go_to_mode(CanMode::Halt).
TestModeEntry_KeepsMode(mode) == mode
TestModeEntry(mode) == "Halt"

\* The four test-mode functions and the TCR value each writes.
TestFns ==
    {"internal_self_test", "external_self_test", "listen_only_mode",
     "disable_test_mode"}
TestTcr(fn) ==
    CASE fn = "internal_self_test" -> [tste |-> TRUE, tstm |-> "11"]
      [] fn = "external_self_test" -> [tste |-> TRUE, tstm |-> "10"]
      [] fn = "listen_only_mode" -> [tste |-> TRUE, tstm |-> "01"]
      [] fn = "disable_test_mode" -> [tste |-> FALSE, tstm |-> "00"]

\* One of the test-mode functions is called, in any mode.
Test_Call ==
    /\ s_pc = "idle" /\ t_pc = "idle" /\ c_pc = "idle" /\ m_pc = "idle"
    /\ n_pc = "done"
    /\ \E fn \in TestFns : m_fn' = fn
    /\ m_pc' = "m_halt"
    /\ UNCHANGED <<can_mode, can_mctl, can_mb, can_mier, can_irq, s_pc, s_i,
                   s_frame, s_result, s_sends, s_idle_at_call, recvVars,
                   ctlVars, txVars, rxVars, pureVars, oldVars, can_idfm, can_tsrc,
                   can_tcr, can_msmr>>

\* self.go_to_mode(CanMode::Halt)
Test_RequestHalt ==
    /\ m_pc = "m_halt"
    /\ can_mode' = GoToMode(can_mode, TestModeEntry(can_mode))
    /\ m_pc' = "m_tcr"
    /\ UNCHANGED <<can_mctl, can_mb, can_mier, can_irq, s_pc, s_i,
                   s_frame, s_result, s_sends, s_idle_at_call, recvVars,
                   ctlVars, txVars, rxVars, pureVars, oldVars, can_idfm, can_tsrc,
                   can_tcr, can_msmr, m_fn>>

\* self.reg.tcr.write(...), and the function returns.
Test_WriteTcr ==
    /\ m_pc = "m_tcr"
    /\ can_tcr' = TestTcr(m_fn)
    /\ m_pc' = "idle"
    /\ UNCHANGED <<can_mode, can_mctl, can_mb, can_mier, can_irq, s_pc, s_i,
                   s_frame, s_result, s_sends, s_idle_at_call, recvVars,
                   ctlVars, txVars, rxVars, pureVars, oldVars, can_idfm, can_tsrc,
                   can_msmr, m_fn>>

\* start(): operation mode is requested, then CTLR.TSRC is written to 1.
Can_Start ==
    /\ s_pc = "idle" /\ t_pc = "idle" /\ c_pc = "idle" /\ m_pc = "idle"
    /\ n_pc = "done"
    /\ can_mode = "Halt"
    /\ can_mode' = GoToMode(can_mode, "Operation")
    /\ can_tsrc' = TRUE
    /\ UNCHANGED <<can_mctl, can_mb, can_mier, can_irq, s_pc, s_i, s_frame,
                   s_result, s_sends, s_idle_at_call, recvVars, ctlVars,
                   txVars, rxVars, pureVars, oldVars, can_idfm, can_tcr, can_msmr,
                   m_pc, m_fn>>

\* r.trmreq().bit_is_clear() && r.recreq().bit_is_clear()
MailboxFree_IgnoresRecreq(r) == ~r.trmreq
MailboxFree(r) == ~r.trmreq /\ ~r.recreq

\* send_frame(frame) is called; the loop starts at i = 0.
Send_Call ==
    /\ s_pc = "idle" /\ t_pc = "idle" /\ c_pc = "idle" /\ m_pc = "idle"
    /\ can_mode = "Operation"
    /\ s_sends < MaxSends
    /\ \E f \in Frames : s_frame' = f
    /\ s_i' = 0
    /\ s_pc' = "s_scan"
    /\ s_sends' = s_sends + 1
    /\ s_idle_at_call' = (\E i \in Mailboxes : ~can_mctl[i].trmreq /\ ~can_mctl[i].recreq)
    /\ UNCHANGED <<can_mode, can_mctl, can_mb, can_mier, can_irq, s_result,
                   recvVars, ctlVars, restVars>>

\* One iteration of the loop: read MCTL[i]; a free mailbox is taken, a busy
\* one moves to i + 1, and the loop running out returns Err(()).
Send_Scan ==
    /\ s_pc = "s_scan"
    /\ IF MailboxFree(can_mctl[s_i])
       THEN /\ s_pc' = "s_id"
            /\ UNCHANGED <<s_i, s_result>>
       ELSE IF s_i + 1 < NumMailboxes
       THEN /\ s_i' = s_i + 1
            /\ UNCHANGED <<s_pc, s_result>>
       ELSE /\ s_i' = s_i + 1
            /\ s_pc' = "s_ret"
            /\ s_result' = "Err"
    /\ UNCHANGED <<can_mode, can_mctl, can_mb, can_mier, can_irq, s_frame,
                   s_sends, s_idle_at_call, recvVars, ctlVars, restVars>>

\* mb_id(i).write_volatile(frame.id.into_bits())
Send_WriteId ==
    /\ s_pc = "s_id"
    /\ can_mb' = [can_mb EXCEPT ![s_i].id = s_frame.id]
    /\ s_pc' = "s_dl"
    /\ UNCHANGED <<can_mode, can_mctl, can_mier, can_irq, s_i, s_frame,
                   s_result, s_sends, s_idle_at_call, recvVars, ctlVars, restVars>>

\* mb_dl(i).write_volatile(frame.dlc)
Send_WriteDl ==
    /\ s_pc = "s_dl"
    /\ can_mb' = [can_mb EXCEPT ![s_i].dlc = s_frame.dlc]
    /\ s_pc' = "s_data"
    /\ UNCHANGED <<can_mode, can_mctl, can_mier, can_irq, s_i, s_frame,
                   s_result, s_sends, s_idle_at_call, recvVars, ctlVars, restVars>>

\* for (j, &byte) in frame.data(): data_ptr.add(j).write_volatile(byte)
Send_WriteData ==
    /\ s_pc = "s_data"
    /\ LET d == FrameData(s_frame)
       IN  can_mb' = [can_mb EXCEPT ![s_i].data =
                         [k \in 0 .. 7 |-> IF k \in DOMAIN d THEN d[k] ELSE @[k]]]
    /\ s_pc' = "s_req"
    /\ UNCHANGED <<can_mode, can_mctl, can_mier, can_irq, s_i, s_frame,
                   s_result, s_sends, s_idle_at_call, recvVars, ctlVars, restVars>>

\* mctl_tx()[i].write(|w| w.trmreq()._1()); return Ok(())
Send_Request ==
    /\ s_pc = "s_req"
    /\ can_mctl' = [can_mctl EXCEPT ![s_i] = MctlTrmreq]
    /\ s_pc' = "s_ret"
    /\ s_result' = "Ok"
    /\ UNCHANGED <<can_mode, can_mb, can_mier, can_irq, s_i, s_frame,
                   s_sends, s_idle_at_call, recvVars, ctlVars, restVars>>

\* The caller has the result.
Send_Return ==
    /\ s_pc = "s_ret"
    /\ s_pc' = "idle"
    /\ UNCHANGED <<can_mode, can_mctl, can_mb, can_mier, can_irq, s_i, s_frame,
                   s_result, s_sends, s_idle_at_call, recvVars, ctlVars, restVars>>

\* The peripheral finishes the transmission requested in mailbox i: it sets
\* SENTDATA (bit 0 of MCTL, NEWDATA in a receiver) and, the mailbox's MIER
\* bit being set, raises the transmit-complete interrupt the handler is
\* bound to.
Hw_TxComplete ==
    /\ can_mode = "Operation"
    /\ \E i \in Mailboxes :
          /\ can_mctl[i].trmreq /\ ~can_mctl[i].newdata
          /\ can_mctl' = [can_mctl EXCEPT ![i].newdata = TRUE]
          /\ can_irq' = (can_irq \/ i \in can_mier)
    /\ UNCHANGED <<can_mode, can_mb, can_mier, s_pc, s_i, s_frame, s_result,
                   s_sends, s_idle_at_call, recvVars, ctlVars, restVars>>

\* MSSR read in transmit search mode: the lowest mailbox that has
\* completed a transmission, NumMailboxes or more when there is none.
Mssr(mctl) ==
    LET done == {i \in Mailboxes : mctl[i].trmreq /\ mctl[i].newdata}
    IN  IF done = {} THEN 128
        ELSE CHOOSE i \in done : \A k \in done : i <= k

\* can.msmr.write(|w| w.mbsm()._01()): transmit mailbox search mode.
MsmrTransmitSearch == "01"

\* The last write of the handler, can.msmr.write(bits(msmr)), by the value
\* msmr read on entry.
MsmrRestored_LeftInSearch(msmr) == MsmrTransmitSearch
MsmrRestored(msmr) == msmr

\* can.mctl_tx()[mailbox].write(|w| unsafe { w.bits(0) }), twice.
HandlerClear_EveryMailbox(mctl, mailbox) == [i \in Mailboxes |-> MctlClear]
HandlerClear(mctl, mailbox) == [mctl EXCEPT ![mailbox] = MctlClear]

\* TxHandler::on_interrupt: clear the pending vector, save MSMR, select the
\* transmit search, find the mailbox by the search register, write its
\* control register to 0 and restore MSMR.  The handler runs to its end
\* before the foreground code it interrupted goes on.
TxHandler ==
    /\ can_irq
    /\ can_irq' = FALSE
    /\ LET msmr == can_msmr
           mailbox == Mssr(can_mctl)
       IN  /\ can_mctl' = IF mailbox < NumMailboxes
                           THEN HandlerClear(can_mctl, mailbox)
                           ELSE can_mctl
           /\ can_msmr' = MsmrRestored(msmr)
    /\ HandlerWakes
    /\ UNCHANGED <<can_mode, can_mb, can_mier, s_pc, s_i, s_frame, s_result,
                   s_sends, s_idle_at_call, recvVars, ctlVars>>
    /\ UNCHANGED <<tx_buf, scr, tdr, rx_buf, rx_arrived, rx_accepted, pureVars, oldVars>>
    /\ UNCHANGED <<can_idfm, can_tsrc, can_tcr, m_pc, m_fn>>

\* ------------------------------------------------------- CAN reception
\* The peripheral stores a frame from the bus in a mailbox whose RECREQ is
\* set and sets its NEWDATA; which of the receive mailboxes takes a frame
\* is the acceptance filter's choice and is left open here.  A stored
\* frame that was not read is overwritten by a later one.  The data length
\* register holds the four DLC bits of the frame, and a frame on the bus
\* may carry a DLC above 8.

MaxCanRx == 2  \* frames the peripheral stores in one run

\* The mailboxes the bus traffic of a run goes to.
RxSlots == {0, 2, 31}

\* The frames on the bus: id register value, DLC, data bytes.
BusFrames ==
    {[id |-> MailboxIdFromStandard(291), dlc |-> 1,
      data |-> [k \in 0 .. 7 |-> IF k = 0 THEN 255 ELSE 0]],
     [id |-> MailboxIdFromStandard(1), dlc |-> 2,
      data |-> [k \in 0 .. 7 |-> IF k < 2 THEN k + 1 ELSE 0]],
     [id |-> MailboxIdFromStandard(291), dlc |-> 9,
      data |-> [k \in 0 .. 7 |-> k + 1]]}

Hw_Receive ==
    /\ can_mode = "Operation"
    /\ can_rx_count < MaxCanRx
    /\ \E i \in RxSlots, f \in BusFrames :
          /\ can_mctl[i].recreq /\ ~can_mctl[i].trmreq
          /\ can_mb' = [can_mb EXCEPT ![i] = f]
          /\ can_mctl' = [can_mctl EXCEPT ![i].newdata = TRUE]
    /\ can_rx_count' = can_rx_count + 1
    /\ UNCHANGED <<can_mode, can_mier, can_irq, s_pc, s_i, s_frame, s_result,
                   s_sends, s_idle_at_call, t_pc, t_i, t_frame, t_result,
                   ctlVars, restVars>>

\* r.newdata().bit_is_set() && r.trmreq().bit_is_clear()
RecvReady_IgnoresNewdata(r) == ~r.trmreq
RecvReady(r) == r.newdata /\ ~r.trmreq

\* mctl_rx()[i].write(|w| w.recreq()._1())
MctlRecreq == [MctlClear EXCEPT !.recreq = TRUE]

\* let mut data = [0; 8]; data[..(dlc as usize)] is a slice of that array:
\* a dlc above 8 is out of range and panics.
DlcInRange(dlc) == dlc <= 8

\* The frame built from the registers of a mailbox: the first dlc data
\* bytes are read, the others stay 0.
RecvFrame(mb) ==
    [id |-> mb.id, dlc |-> mb.dlc,
     data |-> [k \in 0 .. 7 |-> IF k < mb.dlc THEN mb.data[k] ELSE 0]]

\* try_receive_frame() is called; the loop starts at i = 0.
Recv_Call ==
    /\ t_pc = "idle" /\ s_pc = "idle" /\ c_pc = "idle" /\ m_pc = "idle"
    /\ can_mode = "Operation"
    /\ t_pc' = "t_scan"
    /\ t_i' = 0
    /\ UNCHANGED <<can_mode, can_mctl, can_mb, can_mier, can_irq, s_pc, s_i,
                   s_frame, s_result, s_sends, s_idle_at_call, can_rx_count,
                   t_frame, t_result, ctlVars, restVars>>

\* One iteration of the loop: read MCTL[i]; a mailbox with a frame is
\* taken, any other moves to i + 1, and the loop running out returns None.
Recv_Scan ==
    /\ t_pc = "t_scan"
    /\ IF RecvReady(can_mctl[t_i])
       THEN /\ t_pc' = "t_clear"
            /\ UNCHANGED <<t_i, t_result>>
       ELSE IF t_i + 1 < NumMailboxes
       THEN /\ t_i' = t_i + 1
            /\ UNCHANGED <<t_pc, t_result>>
       ELSE /\ t_i' = t_i + 1
            /\ t_pc' = "t_ret"
            /\ t_result' = "None"
    /\ UNCHANGED <<can_mode, can_mctl, can_mb, can_mier, can_irq, s_pc, s_i,
                   s_frame, s_result, s_sends, s_idle_at_call, can_rx_count,
                   t_frame, ctlVars, restVars>>

\* mctl_rx()[i].write(|w| w.bits(0))
Recv_Clear ==
    /\ t_pc = "t_clear"
    /\ can_mctl' = [can_mctl EXCEPT ![t_i] = MctlClear]
    /\ t_pc' = "t_read"
    /\ UNCHANGED <<can_mode, can_mb, can_mier, can_irq, s_pc, s_i, s_frame,
                   s_result, s_sends, s_idle_at_call, can_rx_count, t_i,
                   t_frame, t_result, ctlVars, restVars>>

\* Read id, dlc and the first dlc data bytes; the slice of the 8-byte
\* array panics when dlc is above 8, and the call never returns.
Recv_Read ==
    /\ t_pc = "t_read"
    /\ IF DlcInRange(can_mb[t_i].dlc)
       THEN /\ t_frame' = RecvFrame(can_mb[t_i])
            /\ t_pc' = "t_rearm"
       ELSE /\ t_pc' = "t_panic"
            /\ UNCHANGED t_frame
    /\ UNCHANGED <<can_mode, can_mctl, can_mb, can_mier, can_irq, s_pc, s_i,
                   s_frame, s_result, s_sends, s_idle_at_call, can_rx_count,
                   t_i, t_result, ctlVars, restVars>>

\* mctl_rx()[i].write(|w| w.recreq()._1()); return Some(Frame { .. })
Recv_Rearm ==
    /\ t_pc = "t_rearm"
    /\ can_mctl' = [can_mctl EXCEPT ![t_i] = MctlRecreq]
    /\ t_pc' = "t_ret"
    /\ t_result' = "Some"
    /\ UNCHANGED <<can_mode, can_mb, can_mier, can_irq, s_pc, s_i, s_frame,
                   s_result, s_sends, s_idle_at_call, can_rx_count, t_i,
                   t_frame, ctlVars, restVars>>

\* The caller has the result.
Recv_Return ==
    /\ t_pc = "t_ret"
    /\ t_pc' = "idle"
    /\ UNCHANGED <<can_mode, can_mctl, can_mb, can_mier, can_irq, s_pc, s_i,
                   s_frame, s_result, s_sends, s_idle_at_call, can_rx_count,
                   t_i, t_frame, t_result, ctlVars, restVars>>

\* ----------------------------------------- uart_old: serial_print, IEL0, IEL1
\* The transmitter of src/uart_old.rs.  The buffer and SCR are touched by
\* serial_print inside critical_section::with and by the two handlers; a
\* critical section and a handler each run without the other code in
\* between, so each is one step.

OldTxCap == 2   \* capacity of TX.buffer (128 in the source)
MaxStr == 3     \* bytes of one serial_print argument
MaxPrints == 2  \* serial_print calls in one run

\* The arguments of serial_print: byte strings of up to MaxStr bytes.
OldStrs == UNION {[1 .. n -> {1, 2}] : n \in 0 .. MaxStr}

\* init(): p.SCI2.scr().write(bits(0)), then RE and RIE are set.
OldScrReset == [te |-> FALSE, tie |-> FALSE, teie |-> FALSE]

OldInit ==
    /\ o_pc = "idle"
    /\ o_str = <<>>
    /\ o_index = 0
    /\ o_buf = <<>>
    /\ o_scr = OldScrReset
    /\ o_tdr = 255
    /\ o_sent = 0
    /\ o_prints = 0

\* Tx::start_transmit: the SCR value its modify writes.
StartTransmit(r, buffer) ==
    IF r.tie \/ r.teie THEN r
    ELSE IF buffer # <<>> THEN [te |-> TRUE, tie |-> TRUE, teie |-> FALSE]
    ELSE r

\* for (i, b) in bytes[index..].iter().enumerate(): the number of bytes
\* try_push_back accepts before the loop ends or breaks on a full buffer.
OldPushCount(str, index, buffer) ==
    Min(Len(str) - index, OldTxCap - Len(buffer))

\* index += i, at the break.
OldNextIndex_Overwrite(index, i) == i
OldNextIndex(index, i) == index + i

\* A handler ends the wfi of serial_print.
OldWake(pc) == IF pc = "o_parked" THEN "o_loop" ELSE pc

\* serial_print(str) is called.
Old_Call ==
    /\ o_pc = "idle"
    /\ o_prints < MaxPrints
    /\ \E str \in OldStrs : o_str' = str
    /\ o_index' = 0
    /\ o_pc' = "o_loop"
    /\ o_prints' = o_prints + 1
    /\ UNCHANGED <<o_buf, o_scr, o_tdr, o_sent, txVars, rxVars, canVars, pureVars>>

\* One round of the loop, lines 235-257: the critical section pushes the
\* bytes from index on until the buffer is full and calls start_transmit;
\* then serial_print returns when all were pushed, and goes to wfi when not.
Old_Critical ==
    /\ o_pc = "o_loop"
    /\ LET i == OldPushCount(o_str, o_index, o_buf)
           done == (o_index + i = Len(o_str))
           buffer == o_buf \o SubSeq(o_str, o_index + 1, o_index + i)
       IN  /\ o_buf' = buffer
           /\ o_index' = IF done THEN o_index ELSE OldNextIndex(o_index, i)
           /\ o_scr' = StartTransmit(o_scr, buffer)
           /\ o_pc' = IF done THEN "idle" ELSE "o_wfi"
    /\ UNCHANGED <<o_str, o_tdr, o_sent, o_prints, txVars, rxVars, canVars, pureVars>>

\* cortex_m::asm::wfi(): serial_print sleeps until a handler has run.
Old_Wfi ==
    /\ o_pc = "o_wfi"
    /\ o_pc' = "o_parked"
    /\ UNCHANGED <<o_str, o_index, o_buf, o_scr, o_tdr, o_sent, o_prints,
                   txVars, rxVars, canVars, pureVars>>

\* IEL0, the SCI2_TXI handler: raised while TE and TIE are set.
IEL0 ==
    /\ o_scr.te /\ o_scr.tie
    /\ IF o_buf # <<>>
       THEN /\ o_tdr' = Head(o_buf)
            /\ o_sent' = o_sent + 1
            /\ o_buf' = Tail(o_buf)
            /\ o_scr' = IF Tail(o_buf) = <<>>
                        THEN [o_scr EXCEPT !.tie = FALSE, !.teie = TRUE]
                        ELSE o_scr
       ELSE /\ o_scr' = [o_scr EXCEPT !.tie = FALSE, !.teie = FALSE]
            /\ UNCHANGED <<o_tdr, o_sent, o_buf>>
    /\ o_pc' = OldWake(o_pc)
    /\ UNCHANGED <<o_str, o_index, o_prints, txVars, rxVars, canVars, pureVars>>

\* IEL1, the SCI2_TEI handler: raised while TE and TEIE are set, after the
\* last byte has left; it clears TEIE, TIE and TE and calls start_transmit.
IEL1 ==
    /\ o_scr.te /\ o_scr.teie
    /\ o_scr' = StartTransmit(OldScrReset, o_buf)
    /\ o_pc' = OldWake(o_pc)
    /\ UNCHANGED <<o_str, o_index, o_buf, o_tdr, o_sent, o_prints,
                   txVars, rxVars, canVars, pureVars>>

\* ---------------------------------------------------------- specifications
PureInit ==
    /\ p_op = "none"
    /\ p_in = 0
    /\ p_out = 0

Init == UartInit /\ CanInit /\ PureInit /\ OldInit

TxNext ==
    \/ Write_Call
    \/ Write_PushSlice
    \/ Write_Copy
    \/ Write_PushDone
    \/ Write_ReadScr
    \/ Write_Arm
    \/ Write_WaitCheck
    \/ Write_WaitWfi
    \/ Write_ArmAfterTei
    \/ Write_Return
    \/ Write_FullReadScr
    \/ Write_FullArm
    \/ Write_FullWfi
    \/ Flush_Call
    \/ Flush_Check
    \/ Flush_Wfi
    \/ Flush_Return
    \/ TXI_Handler
    \/ TEI_Handler
    \/ ERI_Handler

Spec == Init /\ [][TxNext]_vars

\* The steps of the foreground caller of write and flush once it is in a
\* call: the processor executes them one after the other.  A parked caller
\* has no step; only a handler moves it.
TxForeground ==
    \/ Write_PushSlice
    \/ Write_Copy
    \/ Write_PushDone
    \/ Write_ReadScr
    \/ Write_Arm
    \/ Write_WaitCheck
    \/ Write_WaitWfi
    \/ Write_ArmAfterTei
    \/ Write_Return
    \/ Write_FullReadScr
    \/ Write_FullArm
    \/ Write_FullWfi
    \/ Flush_Check
    \/ Flush_Wfi
    \/ Flush_Return

\* The transmit side with its scheduling: the caller goes on while it is
\* not parked, the TX-empty interrupt fires while TE and TIE are set and
\* the TX-end interrupt fires while TEIE is set.  Nothing makes the
\* receive-error interrupt fire.
TxLiveSpec ==
    /\ Init
    /\ [][TxNext]_vars
    /\ WF_vars(TxForeground)
    /\ WF_vars(TXI_Handler)
    /\ WF_vars(TEI_Handler)

\* ----------------------------------------------------------- receive side
RxNext ==
    \/ Read_Call
    \/ Read_PopSlice
    \/ Read_Copy
    \/ Read_PopDone
    \/ Read_Return
    \/ Read_Wfi
    \/ RXI_Handler
    \/ ERI_Handler

RxSpec == Init /\ [][RxNext]_vars

\* The steps of the foreground caller of read once it is in a call.
RxForeground ==
    \/ Read_PopSlice
    \/ Read_Copy
    \/ Read_PopDone
    \/ Read_Return
    \/ Read_Wfi

\* The receive side with its scheduling: the caller goes on while it is not
\* parked.  Nothing makes a byte arrive, or the receive-error interrupt
\* fire.
RxLiveSpec ==
    /\ Init
    /\ [][RxNext]_vars
    /\ WF_vars(RxForeground)

\* --------------------------------------------------------------- CAN side
CanNext ==
    \/ Cfg_Call
    \/ Cfg_RequestHalt
    \/ Cfg_WriteMasks
    \/ Cfg_WriteMier
    \/ Cfg_WriteMkivlr
    \/ Cfg_Mailbox
    \/ Cfg_Return
    \/ Can_Start
    \/ Send_Call
    \/ Send_Scan
    \/ Send_WriteId
    \/ Send_WriteDl
    \/ Send_WriteData
    \/ Send_Request
    \/ Send_Return
    \/ Hw_TxComplete
    \/ TxHandler

CanSpec == Init /\ [][CanNext]_vars

\* The steps of the foreground caller of configure_mailboxes and send_frame
\* once it is in a call.
CanForeground ==
    \/ Cfg_RequestHalt
    \/ Cfg_WriteMasks
    \/ Cfg_WriteMier
    \/ Cfg_WriteMkivlr
    \/ Cfg_Mailbox
    \/ Cfg_Return
    \/ Send_Scan
    \/ Send_WriteId
    \/ Send_WriteDl
    \/ Send_WriteData
    \/ Send_Request
    \/ Send_Return

\* The send side with its scheduling: the caller goes on, every requested
\* transmission completes, and the transmit-complete handler runs while its
\* vector is pending.
CanLiveSpec ==
    /\ Init
    /\ [][CanNext]_vars
    /\ WF_vars(CanForeground)
    /\ WF_vars(Hw_TxComplete)
    /\ WF_vars(TxHandler)

\* ------------------------------------- CAN transmit handler and reception
\* The registers and callers after Can::new, configure_mailboxes(config)
\* and start() have returned.
CanRunning(config) ==
    /\ can_mode = "Operation"
    /\ can_mctl = [i \in Mailboxes |-> ConfiguredMctl(config[i])]
    /\ can_mb = [i \in Mailboxes |-> MailboxClear]
    /\ can_mier = Mier(config)
    /\ can_irq = FALSE
    /\ s_pc = "idle" /\ s_i = 0 /\ s_frame = NoFrame /\ s_result = "None"
    /\ s_sends = 0 /\ s_idle_at_call = FALSE
    /\ can_rx_count = 0
    /\ t_pc = "idle" /\ t_i = 0 /\ t_frame = NoFrame /\ t_result = "NoCall"
    /\ n_pc = "done"
    /\ n_bit_config = BitConfigNewChecked(FALSE, 3, 5, 2, 1)
    /\ can_bcr = BitConfigNewChecked(FALSE, 3, 5, 2, 1)
    /\ can_rstst = FALSE
    /\ can_mkr = [k \in 0 .. 7 |-> MaskMkr(ConfigMasks[k])]
    /\ can_mkivlr = Mkivlr(config)
    /\ c_pc = "idle" /\ c_i = NumMailboxes /\ c_config = NoConfig
    /\ can_idfm = IdfmStandard
    /\ can_tsrc = TRUE
    /\ can_tcr = TcrReset
    /\ can_msmr = MsmrReset
    /\ m_pc = "idle" /\ m_fn = "none"

\* The config of examples/src/bin/main.rs: the default one with
\* set_mailbox_receiver(0) and enable_all_interrupts().
ExampleConfig == EnableAllInterrupts(SetMailboxReceiver(ConfigDefault, 0))

\* The driver is running as examples/src/bin/main.rs sets it up.
CanIrqInit == UartInit /\ CanRunning(ExampleConfig) /\ PureInit /\ OldInit

CanIrqNext ==
    \/ Send_Call
    \/ Send_Scan
    \/ Send_WriteId
    \/ Send_WriteDl
    \/ Send_WriteData
    \/ Send_Request
    \/ Send_Return
    \/ Hw_TxComplete
    \/ TxHandler
    \/ Hw_Receive

CanIrqSpec == CanIrqInit /\ [][CanIrqNext]_vars

\* ------------------------------------------ CAN sending and receiving
\* The configs the send and the receive side are run together from: the one
\* of examples/src/bin/main.rs, and one with two transmit mailboxes, thirty
\* receive mailboxes and no interrupt.
EchoConfigs == {ExampleConfig, MakeConfig({0, 1}, FALSE)}

\* The config configure_mailboxes was called with, read from MIER, which
\* no function writes after it.
ConfigInEffect == CHOOSE c \in EchoConfigs : Mier(c) = can_mier

CanEchoInit ==
    /\ UartInit
    /\ \E config \in EchoConfigs : CanRunning(config)
    /\ PureInit
    /\ OldInit

MaxEchoSends == 1  \* send_frame calls in one run of the two sides together
MaxEchoRx == 1     \* frames the peripheral stores in such a run

Echo_SendCall == s_sends < MaxEchoSends /\ Send_Call

Echo_HwReceive == can_rx_count < MaxEchoRx /\ Hw_Receive

\* send_frame and try_receive_frame called in any order by the one owner of
\* Can, with frames arriving, transmissions completing and the handler.
CanEchoNext ==
    \/ Echo_SendCall
    \/ Send_Scan
    \/ Send_WriteId
    \/ Send_WriteDl
    \/ Send_WriteData
    \/ Send_Request
    \/ Send_Return
    \/ Hw_TxComplete
    \/ TxHandler
    \/ Echo_HwReceive
    \/ Recv_Call
    \/ Recv_Scan
    \/ Recv_Clear
    \/ Recv_Read
    \/ Recv_Rearm
    \/ Recv_Return

CanEchoSpec == CanEchoInit /\ [][CanEchoNext]_vars

\* ------------------------------------------------------ CAN receive side
CanRxNext ==
    \/ Cfg_Call
    \/ Cfg_RequestHalt
    \/ Cfg_WriteMasks
    \/ Cfg_WriteMier
    \/ Cfg_WriteMkivlr
    \/ Cfg_Mailbox
    \/ Cfg_Return
    \/ Can_Start
    \/ Hw_Receive
    \/ Recv_Call
    \/ Recv_Scan
    \/ Recv_Clear
    \/ Recv_Read
    \/ Recv_Rearm
    \/ Recv_Return

CanRxSpec == Init /\ [][CanRxNext]_vars

\* ------------------------------------------- CAN construction and setup
CanCfgInit == UartInit /\ CanPowerOn /\ PureInit /\ OldInit

CanCfgNext ==
    \/ New_RequestReset
    \/ New_Poll
    \/ New_WriteBcr
    \/ New_RequestHalt
    \/ Hw_ResetEntered
    \/ Hw_ResetLeft
    \/ Cfg_Call
    \/ Cfg_RequestHalt
    \/ Cfg_WriteMasks
    \/ Cfg_WriteMier
    \/ Cfg_WriteMkivlr
    \/ Cfg_Mailbox
    \/ Cfg_Return
    \/ Can_Start
    \/ Test_Call
    \/ Test_RequestHalt
    \/ Test_WriteTcr

CanCfgSpec == CanCfgInit /\ [][CanCfgNext]_vars




\* --------------------------------------------------------- pure functions
\* The functions of the library that touch no register are applied to
\* arguments drawn from the sets below, one application in a run; p_op
\* names the function, p_in is the argument and p_out the value.

\* embedded_can::StandardId: the 11-bit identifiers.
StandardIds == 0 .. 2047

\* embedded_can::ExtendedId: 29-bit identifiers, by their 11 upper and 18
\* lower bits; 0x1ABCDE is 6 * 2^18 + 179422.
ExtendedIds ==
    {h * 262144 + l : h \in {0, 1, 6, 2047},
                      l \in {0, 1, 6, 2047, 2048, 179422, 262143}}

\* MailboxId::from_bits: register values, by field.
MailboxIds ==
    [IDE : BOOLEAN, RTR : BOOLEAN, reserved : BOOLEAN,
     SID : {0, 1, 291, 2047}, EID : {0, 1, 855, 262143}]

\* Id::from(MailboxId::from(Id::Standard(s)))
Pure_StandardRoundTrip ==
    /\ p_op = "none"
    /\ \E s \in StandardIds :
          LET enc == MailboxIdFrom([kind |-> "Standard", raw |-> s])
          IN  /\ p_op' = "standard"
              /\ p_in' = s
              /\ p_out' = [enc |-> enc, dec |-> IdFromMailboxId(enc),
                           is_extended |-> MailboxIdIsExtended(enc)]
    /\ UNCHANGED <<txVars, rxVars, canVars, oldVars>>

\* Id::from(MailboxId::from(Id::Extended(e)))
Pure_ExtendedRoundTrip ==
    /\ p_op = "none"
    /\ \E e \in ExtendedIds :
          LET enc == MailboxIdFrom([kind |-> "Extended", raw |-> e])
          IN  /\ p_op' = "extended"
              /\ p_in' = e
              /\ p_out' = [enc |-> enc, dec |-> IdFromMailboxId(enc),
                           is_extended |-> MailboxIdIsExtended(enc)]
    /\ UNCHANGED <<txVars, rxVars, canVars, oldVars>>

\* Frame::id() and Frame::is_extended() of a frame whose id is m.
Pure_DecodeMailboxId ==
    /\ p_op = "none"
    /\ \E m \in MailboxIds :
          /\ p_op' = "decode"
          /\ p_in' = m
          /\ p_out' = [id |-> IdFromMailboxId(m),
                       is_extended |-> MailboxIdIsExtended(m)]
    /\ UNCHANGED <<txVars, rxVars, canVars, oldVars>>

\* Arguments of new_checked: a u16 and three u8, at and around the limits.
BitConfigArgs ==
    [cclks : BOOLEAN,
     brp_scale : {0, 1, 3, 1024, 1025, 65535},
     tseg1_tq : {0, 3, 4, 5, 16, 17, 255},
     tseg2_tq : {0, 1, 2, 8, 9, 255},
     sjw_tq : {0, 1, 4, 5, 255}]

Pure_BitConfigNewChecked ==
    /\ p_op = "none"
    /\ \E a \in BitConfigArgs :
          /\ p_op' = "new_checked"
          /\ p_in' = a
          /\ p_out' = BitConfigNewChecked(a.cclks, a.brp_scale, a.tseg1_tq,
                                          a.tseg2_tq, a.sjw_tq)
    /\ UNCHANGED <<txVars, rxVars, canVars, oldVars>>

\* bit_config.into_bits() of an accepted configuration, as Can::new
\* writes it to BCR.
Pure_BitConfigIntoBits ==
    /\ p_op = "none"
    /\ \E a \in BitConfigArgs :
          /\ BitConfigValid(a.brp_scale, a.tseg1_tq, a.tseg2_tq, a.sjw_tq)
          /\ p_op' = "into_bits"
          /\ p_in' = a
          /\ p_out' = BitConfigIntoBits(
                          BitConfigNewChecked(a.cclks, a.brp_scale, a.tseg1_tq,
                                              a.tseg2_tq, a.sjw_tq))
    /\ UNCHANGED <<txVars, rxVars, canVars, oldVars>>

\* The data slices handed to Frame::new: 0, 1, 2, 8, 9 and 10 bytes.
FrameDatas ==
    {<<>>, <<255>>, <<1, 2>>, <<1, 2, 3, 4, 5, 6, 7, 8>>,
     <<1, 2, 3, 4, 5, 6, 7, 8, 9>>, <<9, 8, 7, 6, 5, 4, 3, 2, 1, 0>>}

\* The dlc arguments handed to Frame::new_remote, a usize.
RemoteDlcs == {0, 1, 8, 9, 255, 65536}

\* What the caller reads from a Frame through embedded_can::Frame.
FrameView(f) ==
    IF f = None THEN [ret |-> None]
    ELSE [ret |-> f, id |-> FrameId(f), dlc |-> FrameDlc(f),
          data |-> FrameData(f), is_remote |-> FrameIsRemote(f)]

\* Frame::new(id, data) with a standard id.
Pure_FrameNew ==
    /\ p_op = "none"
    /\ \E sid \in StandardIds, d \in FrameDatas :
          /\ p_op' = "frame_new"
          /\ p_in' = [id |-> [kind |-> "Standard", raw |-> sid], data |-> d]
          /\ p_out' = FrameView(FrameNewOption([kind |-> "Standard", raw |-> sid], d))
    /\ UNCHANGED <<txVars, rxVars, canVars, oldVars>>

\* Frame::new_remote(id, dlc) with a standard or an extended id.
Pure_FrameNewRemote ==
    /\ p_op = "none"
    /\ \E id \in [kind : {"Standard"}, raw : {0, 291, 2047}]
                  \cup [kind : {"Extended"}, raw : {0, 1752542}],
          dlc \in RemoteDlcs :
          /\ p_op' = "frame_new_remote"
          /\ p_in' = [id |-> id, dlc |-> dlc]
          /\ p_out' = FrameView(FrameNewRemote(id, dlc))
    /\ UNCHANGED <<txVars, rxVars, canVars, oldVars>>

\* MailboxMode: Tx(interrupt) or Rx(interrupt, mask_valid).
MailboxModes ==
    [rx : {FALSE}, interrupt : BOOLEAN]
        \cup [rx : {TRUE}, interrupt : BOOLEAN, mask_valid : BOOLEAN]

\* MailboxConfig values: mailboxes 0, 1 and 31 in any mode, the others as
\* in the default.
MailboxConfigs ==
    {[i \in Mailboxes |->
         IF i = 0 THEN a ELSE IF i = 1 THEN b ELSE IF i = 31 THEN c
         ELSE ConfigDefault[i]] : a \in MailboxModes, b \in MailboxModes,
                                   c \in MailboxModes}
        \cup Configs

\* config.mier() and config.mkivlr()
Pure_MierMkivlr ==
    /\ p_op = "none"
    /\ \E config \in MailboxConfigs :
          /\ p_op' = "mier_mkivlr"
          /\ p_in' = config
          /\ p_out' = [mier |-> Mier(config), mkivlr |-> Mkivlr(config)]
    /\ UNCHANGED <<txVars, rxVars, canVars, oldVars>>

\* The identifiers a receive mailbox's filter may hold.
FilterIds ==
    {[kind |-> "Standard", raw |-> r] : r \in {0, 1, 291, 2047}}
    \cup {[kind |-> "Extended", raw |-> r] : r \in {0, 179422, 536870911}}

\* configure_mailboxes, MailboxMode::Rx arm: the value written to the id
\* register of the mailbox, MailboxId::from(config.id) after
\* configure_ide_bit, under each identifier-format mode.
Pure_FilterId ==
    /\ p_op = "none"
    /\ \E idfm \in IdfmModes, id \in FilterIds :
          /\ p_op' = "filter_id"
          /\ p_in' = [idfm |-> idfm, id |-> id]
          /\ p_out' = ConfigureIdeBit(idfm, MailboxIdFrom(id))
    /\ UNCHANGED <<txVars, rxVars, canVars, oldVars>>

\* bind_interrupts!(struct Name { IRQ => Handler, ...; ... }): a declaration
\* is the sequence of its entries [irq, handlers], handlers being the
\* handler types listed for the vector, in source order.  Two entries for
\* one vector would define the function IRQ twice and a handler listed
\* twice would implement Binding<Handler> twice, so a declaration that
\* compiles names each vector and each handler once.
BindIrqs == {"IEL4", "IEL5", "IEL8"}
BindHandlers == {"TXI_Handler", "TEI_Handler", "TxHandler"}

HandlerLists ==
    {<<>>}
    \cup {<<h>> : h \in BindHandlers}
    \cup {q \in BindHandlers \X BindHandlers : q[1] # q[2]}

Range(q) == {q[k] : k \in 1 .. Len(q)}

BindEntries == [irq : BindIrqs, handlers : HandlerLists]

BindDecls ==
    {<<e>> : e \in BindEntries}
    \cup {d \in BindEntries \X BindEntries :
              /\ d[1].irq # d[2].irq
              /\ Range(d[1].handlers) \cap Range(d[2].handlers) = {}}

\* The body of unsafe extern "C" fn $irq(): one statement per handler of
\* the entry, <$handler as Handler>::on_interrupt(ra4m1::Interrupt::$irq).
EntryBody_Reversed(e) ==
    [j \in 1 .. Len(e.handlers) |->
        [call |-> "on_interrupt",
         handler |-> e.handlers[Len(e.handlers) + 1 - j],
         interrupt |-> e.irq]]
EntryBody(e) ==
    [j \in 1 .. Len(e.handlers) |->
        [call |-> "on_interrupt", handler |-> e.handlers[j],
         interrupt |-> e.irq]]

\* The items the macro generates for a declaration: one function per
\* entry, and one impl Binding<$handler> for $name per handler of each
\* entry, whose interrupt() returns ra4m1::Interrupt::$irq.
BindExpand(decl) ==
    [fns |-> [k \in 1 .. Len(decl) |->
                 [name |-> decl[k].irq, body |-> EntryBody(decl[k])]],
     impls |-> UNION {{[handler |-> h, interrupt |-> decl[k].irq] :
                          h \in Range(decl[k].handlers)} :
                      k \in 1 .. Len(decl)}]

Pure_BindInterrupts ==
    /\ p_op = "none"
    /\ \E decl \in BindDecls :
          /\ p_op' = "bind_interrupts"
          /\ p_in' = decl
          /\ p_out' = BindExpand(decl)
    /\ UNCHANGED <<txVars, rxVars, canVars, oldVars>>

PureNext ==
    \/ Pure_BindInterrupts
    \/ Pure_FilterId
    \/ Pure_StandardRoundTrip
    \/ Pure_ExtendedRoundTrip
    \/ Pure_DecodeMailboxId
    \/ Pure_BitConfigNewChecked
    \/ Pure_BitConfigIntoBits
    \/ Pure_FrameNew
    \/ Pure_FrameNewRemote
    \/ Pure_MierMkivlr

PureSpec == Init /\ [][PureNext]_vars

\* ------------------------------------------------------- uart_old, as run
OldNext ==
    \/ Old_Call
    \/ Old_Critical
    \/ Old_Wfi
    \/ IEL0
    \/ IEL1

OldSpec == Init /\ [][OldNext]_vars

\* The steps of serial_print once it is called.
OldForeground == Old_Critical \/ Old_Wfi

\* serial_print goes on, and the two interrupts are served while they are
\* raised.
OldLiveSpec ==
    /\ Init
    /\ [][OldNext]_vars
    /\ WF_vars(OldForeground)
    /\ WF_vars(IEL0)
    /\ WF_vars(IEL1)

\* ------------------------------------------------- steps, seen from outside
ParkedPcs == {"w_parked_tei", "w_parked_full", "f_parked"}
ArmPcs == {"w_arm", "w_arm2", "w_full_arm"}
FullPcs == {"w_full_read", "w_full_arm", "w_full_wfi", "w_parked_full"}

\* A step of the foreground caller of write / flush: it moves w_pc, and not
\* out of a parked wfi (only a handler does that).
FgStep == w_pc' # w_pc /\ w_pc \notin ParkedPcs

\* A step in which TXI_Handler or TEI_Handler ran: a byte went to TDR, or
\* the transmitter was switched off.
TxHandlerRan ==
    \/ tdr' # tdr
    \/ TxBits(scr') = Idle /\ TxBits(scr) # Idle

\* ------------------------------------------------------------------ claims

\* C1: the values written to TDR are, at every moment, a prefix of the bytes
\* write has accepted (same order, none twice), and when flush returns they
\* are exactly the bytes accepted by the writes before it.
C1_TxExactlyOnceFifo ==
    /\ IsPrefix(tdr, tx_accepted \o SubSeq(w_buf, 1, w_len))
    /\ w_pc = "f_ret" => tdr = tx_accepted

C1_Witness ==
    /\ w_pc = "f_ret"
    /\ Len(tx_accepted) >= 3
    /\ tx_accepted[1] # tx_accepted[2]
    /\ tdr = tx_accepted

C5_Transition ==
    LET a == TxBits(scr)
        b == TxBits(scr')
    IN  a # b =>
          \/ a = Idle /\ b = Transmitting /\ FgStep /\ w_pc \in ArmPcs
          \/ /\ a = Transmitting /\ b = EndPending
             /\ Count(tx_buf) = 1 /\ IsEmpty(tx_buf')
             /\ tdr' = Append(tdr, Contents(tx_buf)[1])
          \/ a = EndPending /\ b = Idle /\ tdr' = tdr /\ tx_buf' = tx_buf
          \/ a = Transmitting /\ b = Idle /\ IsEmpty(tx_buf) /\ tdr' = tdr

C5_TransmitStateMachine ==
    /\ [](TxBits(scr) \in {Idle, Transmitting, EndPending})
    /\ [][C5_Transition]_vars

C5_Witness ==
    /\ TxBits(scr) = EndPending
    /\ Len(tdr) >= 2
    /\ w_pc = "w_parked_tei"

\* C6: write changes the transmit-state bits only by arming, and only from
\* Idle; on the path that found the final byte in flight it arms only after
\* it has read SCR with TE and TEIE both clear.
C6_ArmsOnlyWhenIdle ==
    /\ [](w_pc \in ArmPcs => ~w_reg.te /\ TxBits(scr) = Idle)
    /\ [](w_pc = "w_arm2" => ~w_reg.teie)
    /\ [][FgStep /\ TxBits(scr') # TxBits(scr) =>
            w_pc \in ArmPcs /\ TxBits(scr) = Idle /\ TxBits(scr') = Transmitting]_vars
    /\ [][w_pc = "w_check_tei" /\ FgStep /\ TxBits(scr) # Idle =>
            w_pc' = "w_wfi_tei" /\ scr' = scr]_vars

C6_Witness ==
    /\ w_pc = "w_arm2"
    /\ ~IsEmpty(tx_buf)

\* C7 as stated: write returns min(len(bytes), first free run) and never 0.
C7_Original ==
    w_pc = "w_ret" => w_len = Min(Len(w_buf), w_data.n) /\ w_len >= 1

\* C7 amended: write returns n = min(len(bytes), first contiguous free run),
\* appends exactly bytes[0..n], and n >= 1 whenever bytes is not empty; with
\* no free space it does not return but waits and retries.
C7_WriteCount ==
    /\ [](w_pc = "w_ret" =>
            /\ w_len = Min(Len(w_buf), w_data.n)
            /\ w_buf # <<>> => w_len >= 1)
    /\ [][w_pc = "w_push_slice" /\ FgStep =>
            /\ w_data'.n = FreeRun(tx_buf)
            /\ w_data'.n = 0 <=> w_pc' = "w_full_read"]_vars
    /\ [][w_pc = "w_push_done" /\ FgStep =>
            Contents(tx_buf') = Contents(tx_buf) \o SubSeq(w_buf, 1, w_len)]_vars
    /\ [][(w_pc \in FullPcs) => w_pc' \in (FullPcs \cup {"w_push_slice"})]_vars

C7_Witness ==
    /\ w_pc = "w_ret"
    /\ w_len >= 1
    /\ w_len < Len(w_buf)
    /\ w_data.off > 0

\* C8: flush returns only with the TX buffer empty, every accepted byte
\* already written to TDR; its own steps change neither tx_buf nor SCR.
C8_FlushReturnsEmpty ==
    /\ [](w_pc = "f_ret" =>
            /\ IsEmpty(tx_buf)
            /\ Contents(tx_buf) = <<>>
            /\ Len(tdr) = Len(tx_accepted))
    /\ [][(w_pc \in {"f_check", "f_ret"}) /\ FgStep =>
            tx_buf' = tx_buf /\ scr' = scr]_vars

C8_Witness ==
    /\ w_pc = "f_ret"
    /\ Len(tdr) >= 2
    /\ TxBits(scr) = EndPending


\* A step of the foreground caller of read.
RFgStep == r_pc' # r_pc /\ r_pc # "r_parked"

\* C2: the RX buffer never holds more than its capacity; a byte that arrives
\* while it is full is dropped, the queued bytes and the storage unchanged,
\* and a byte that arrives while there is room is queued behind them.
C2_Arrival ==
    rx_arrived' # rx_arrived =>
        IF Count(rx_buf) = rx_buf.len
        THEN /\ rx_buf'.buf = rx_buf.buf
             /\ Contents(rx_buf') = Contents(rx_buf)
             /\ rx_accepted' = rx_accepted
        ELSE /\ Len(rx_accepted') = Len(rx_accepted) + 1
             /\ Contents(rx_buf') =
                    Append(Contents(rx_buf), rx_accepted'[Len(rx_accepted')])

C2_RxDropsNewestWhenFull ==
    /\ [](Count(rx_buf) <= rx_buf.len)
    /\ [][C2_Arrival]_vars

C2_Witness ==
    /\ Count(rx_buf) = rx_buf.len
    /\ rx_arrived > Len(rx_accepted)
    /\ rx_delivered # <<>>

\* C3: what read has returned so far, then what a read about to return
\* holds, then what is queued, is exactly what the RXI handler accepted, in
\* arrival order: every accepted byte is delivered once, in order.
C3_RxFifo ==
    /\ IsPrefix(rx_delivered, rx_accepted)
    /\ rx_accepted = rx_delivered
                     \o (IF r_pc = "r_ret" THEN r_out ELSE <<>>)
                     \o Contents(rx_buf)

C3_Witness ==
    /\ r_pc = "r_ret"
    /\ Len(rx_delivered) >= 1
    /\ r_out # <<>>
    /\ Count(rx_buf) >= 1
    /\ rx_accepted[1] # rx_accepted[2]

\* C9: read with a non-empty buf does not wait when the RX buffer holds a
\* byte; it returns n = min(len(buf), first contiguous filled run) >= 1,
\* copies the n oldest queued bytes and removes exactly those n.
C9_ReadCount ==
    /\ [](r_pc = "r_ret" =>
            /\ Len(r_out) = Min(r_cap, r_data.n)
            /\ r_cap >= 1 => Len(r_out) >= 1)
    /\ [][r_pc = "r_pop_slice" /\ RFgStep =>
            /\ r_data'.n = FilledRun(rx_buf)
            /\ r_pc' = "r_wfi" <=> Count(rx_buf) = 0]_vars
    /\ [][r_pc = "r_copy" /\ RFgStep =>
            r_out' = SubSeq(Contents(rx_buf), 1, Min(r_cap, r_data.n))]_vars
    /\ [][r_pc = "r_pop_done" /\ RFgStep =>
            Contents(rx_buf) = r_out \o Contents(rx_buf')]_vars

C9_Witness ==
    /\ r_pc = "r_ret"
    /\ Len(r_out) >= 1
    /\ Len(r_out) < r_cap
    /\ Count(rx_buf) >= 1
    /\ r_data.off > 0

\* ------------------------------------------------------------ CAN claims
\* A mailbox is busy when it has transmit-request or receive-request set.
Busy(r) == r.trmreq \/ r.recreq
AllBusy == \A i \in Mailboxes : Busy(can_mctl[i])
canRegs == <<can_mode, can_mctl, can_mb, can_mier>>
SendStep == s_pc' # s_pc \/ s_i' # s_i

\* C10: send_frame with all 32 mailboxes busy returns Err and writes no
\* register: a loop iteration that finds every mailbox busy takes none, the
\* loop writes nothing, Err is returned only out of the loop after mailbox
\* 31 was read busy, and the mailbox send_frame writes to is one it found
\* with both bits clear.  With a mailbox idle at the call, the call returns
\* Ok.
C10_ScanStep ==
    (s_pc = "s_scan" /\ SendStep) =>
        /\ canRegs' = canRegs
        /\ AllBusy => s_pc' # "s_id"
        /\ s_pc' = "s_id" => ~Busy(can_mctl[s_i])
        /\ s_pc' = "s_ret" =>
              /\ s_result' = "Err"
              /\ s_i = NumMailboxes - 1
              /\ Busy(can_mctl[s_i])
C10_ErrOnlyFromScan ==
    (s_pc' = "s_ret" /\ s_pc # "s_ret" /\ s_result' = "Err") => s_pc = "s_scan"
C10_SendFrameBusy ==
    /\ [][C10_ScanStep /\ C10_ErrOnlyFromScan]_vars
    /\ [](s_pc \in {"s_id", "s_dl", "s_data", "s_req"} => ~Busy(can_mctl[s_i]))
    /\ [](s_pc = "s_ret" /\ s_idle_at_call => s_result = "Ok")
\* send_frame returned Err with every mailbox busy at the call and at the
\* return, some by transmit-request and some by receive-request.
C10_Witness ==
    /\ s_pc = "s_ret" /\ s_result = "Err"
    /\ ~s_idle_at_call /\ AllBusy
    /\ \E i \in Mailboxes : can_mctl[i].trmreq
    /\ \E i \in Mailboxes : can_mctl[i].recreq

\* C11: a successful send_frame takes the first mailbox its loop reads with
\* transmit-request and receive-request both clear (every mailbox it passed
\* over was busy when read), writes the frame's identifier, length and its
\* dlc data bytes there, sets that mailbox's transmit-request, and changes
\* the identifier, length, data and control register of no other mailbox.
C11_Steps ==
    /\ (s_pc = "s_scan" /\ s_i' = s_i + 1) => Busy(can_mctl[s_i])
    /\ (s_pc = "s_scan" /\ s_pc' = "s_id") => (s_i' = s_i /\ ~Busy(can_mctl[s_i]))
    /\ SendStep =>
          \A k \in Mailboxes :
              k # s_i => (can_mb'[k] = can_mb[k] /\ can_mctl'[k] = can_mctl[k])
    /\ (s_pc = "s_req" /\ s_pc' = "s_ret") =>
          /\ s_result' = "Ok"
          /\ can_mctl'[s_i].trmreq
          /\ can_mb'[s_i].id = s_frame.id
          /\ can_mb'[s_i].dlc = s_frame.dlc
          /\ \A k \in 0 .. 7 : k < s_frame.dlc => can_mb'[s_i].data[k] = s_frame.data[k]
C11_SendFrameEffect ==
    /\ [][C11_Steps]_vars
    /\ [](s_pc = "s_ret" /\ s_result = "Ok" =>
             /\ s_i \in Mailboxes
             /\ can_mb[s_i].id = s_frame.id
             /\ can_mb[s_i].dlc = s_frame.dlc
             /\ \A k \in 0 .. 7 : k < s_frame.dlc => can_mb[s_i].data[k] = s_frame.data[k])
\* A two-byte frame was sent from mailbox 31 while mailbox 7 still holds
\* an earlier request and the mailboxes in between receive.
C11_Witness ==
    /\ s_pc = "s_ret" /\ s_result = "Ok" /\ s_i = 31
    /\ s_frame.dlc = 2 /\ can_mb[31].data[1] = 2
    /\ can_mctl[31].trmreq /\ can_mctl[7].trmreq /\ can_mctl[8].recreq

\* ---------------------------------------------------- CAN receive claims
RecvStep == t_pc' # t_pc \/ t_i' # t_i
HoldsFrame(r) == r.newdata /\ ~r.trmreq

\* C12: try_receive_frame returns None and changes no register when no
\* mailbox has new data; otherwise it returns exactly the frame stored in
\* the lowest-index mailbox with new data and leaves the others pending.
\* The loop writes nothing and None comes only out of the loop; a mailbox
\* passed over held no frame when read; the call that took a mailbox
\* returns the identifier, length and data stored there and changes no
\* other mailbox.
C12_Steps ==
    /\ (t_pc = "t_scan" /\ RecvStep) =>
          /\ canRegs' = canRegs
          /\ t_i' = t_i + 1 => ~HoldsFrame(can_mctl[t_i])
          /\ t_pc' = "t_clear" => HoldsFrame(can_mctl[t_i])
    /\ (t_pc' = "t_ret" /\ t_pc # "t_ret" /\ t_result' = "None") => t_pc = "t_scan"
    /\ RecvStep =>
          \A k \in Mailboxes :
              k # t_i => (can_mb'[k] = can_mb[k] /\ can_mctl'[k] = can_mctl[k])
    /\ (t_pc = "t_read" /\ RecvStep) =>
          /\ t_pc' = "t_rearm"
          /\ t_frame'.id = can_mb[t_i].id
          /\ t_frame'.dlc = can_mb[t_i].dlc
          /\ \A k \in 0 .. 7 : k < t_frame'.dlc => t_frame'.data[k] = can_mb[t_i].data[k]
C12_ReturnsLowestPending ==
    /\ [][C12_Steps]_vars
    /\ [](t_pc # "t_panic")
\* try_receive_frame took a mailbox whose stored length is above 8, with
\* a second frame pending in a higher mailbox.
C12_PanicReached ==
    /\ t_pc = "t_panic"
    /\ can_mb[t_i].dlc > 8
    /\ \E k \in Mailboxes : k > t_i /\ can_mctl[k].newdata

\* C13: the mailbox try_receive_frame reads is the first, in ascending
\* index, that its loop finds with new-data set and transmit-request clear
\* (not receive-request clear: a receive mailbox holding a frame has
\* receive-request set); no other mailbox has its identifier, length, data
\* or control register modified by try_receive_frame.
C13_Steps ==
    /\ (t_pc = "t_scan" /\ t_i' = t_i + 1) =>
          ~(can_mctl[t_i].newdata /\ ~can_mctl[t_i].trmreq)
    /\ (t_pc = "t_scan" /\ t_pc' = "t_clear") =>
          (t_i' = t_i /\ can_mctl[t_i].newdata /\ ~can_mctl[t_i].trmreq)
    /\ RecvStep =>
          /\ can_mb' = can_mb
          /\ \A k \in Mailboxes : k # t_i => can_mctl'[k] = can_mctl[k]
C13_ReadsFirstReady ==
    /\ [][C13_Steps]_vars
    /\ [](t_pc = "t_clear" => (can_mctl[t_i].newdata /\ ~can_mctl[t_i].trmreq))
    /\ [](t_pc \in {"t_read", "t_rearm"} => can_mctl[t_i] = MctlClear)
\* As stated: the mailbox taken has new-data set and receive-request clear.
C13_Original ==
    [][(t_pc = "t_scan" /\ t_pc' = "t_clear") =>
          (can_mctl[t_i].newdata /\ ~can_mctl[t_i].recreq)]_vars
\* Mailbox 2 was taken: mailbox 0 receives but holds no frame, mailbox 31
\* holds one that stays pending.
C13_Witness ==
    /\ t_pc = "t_read" /\ t_i = 2
    /\ can_mctl[0].recreq /\ ~can_mctl[0].newdata
    /\ can_mctl[31].newdata /\ can_mctl[31].recreq

\* --------------------------------------------------- identifier claims
\* C14: encoding a standard identifier s and decoding the result gives the
\* standard identifier s; the encoding has IDE clear, EID zero and SID = s.
C14_StandardRoundTrip ==
    p_op = "standard" =>
        /\ p_out.dec = [kind |-> "Standard", raw |-> p_in]
        /\ ~p_out.enc.IDE
        /\ p_out.enc.EID = 0
        /\ p_out.enc.SID = p_in
\* 0x123 was encoded and decoded.
C14_Witness == p_op = "standard" /\ p_in = 291 /\ p_out.dec.raw = 291

\* C15: encoding an extended identifier e and decoding the result gives
\* the extended identifier e, and is_extended() of the encoding is true.
C15_ExtendedRoundTrip ==
    p_op = "extended" =>
        /\ p_out.dec = [kind |-> "Extended", raw |-> p_in]
        /\ p_out.is_extended
\* 0x1ABCDE was encoded and decoded to 0x1AB806.
C15_Diverges ==
    /\ p_op = "extended" /\ p_in = 1752286
    /\ p_out.enc = [IDE |-> TRUE, RTR |-> FALSE, reserved |-> FALSE,
                    SID |-> 6, EID |-> 855]
    /\ p_out.dec = [kind |-> "Extended", raw |-> 1751046]

\* C16: a MailboxId decodes to an Extended identifier exactly when IDE is
\* set or EID is non-zero and to a Standard one otherwise, and
\* Frame::is_extended() is true exactly when Frame::id() is Extended.
C16_DecodeKind ==
    p_op = "decode" =>
        /\ p_out.id.kind = (IF p_in.IDE \/ p_in.EID # 0 THEN "Extended" ELSE "Standard")
        /\ p_out.is_extended <=> (p_out.id.kind = "Extended")
\* A value with IDE clear and EID non-zero was decoded as Extended.
C16_Witness ==
    /\ p_op = "decode" /\ ~p_in.IDE /\ p_in.EID # 0
    /\ p_out.id.kind = "Extended" /\ p_out.is_extended

\* ------------------------------------------------ configuration claims
\* C17: new_checked returns Some exactly when 1 <= prescaler <= 1024,
\* 4 <= tseg1 <= 16, 2 <= tseg2 <= 8 and 1 <= sjw <= 4, and applying it
\* changes no state of the driver.
C17_InRange ==
    /\ 1 <= p_in.brp_scale /\ p_in.brp_scale <= 1024
    /\ 4 <= p_in.tseg1_tq /\ p_in.tseg1_tq <= 16
    /\ 2 <= p_in.tseg2_tq /\ p_in.tseg2_tq <= 8
    /\ 1 <= p_in.sjw_tq /\ p_in.sjw_tq <= 4
C17_NewChecked ==
    /\ [](p_op = "new_checked" => (p_out.kind = "Some" <=> C17_InRange))
    /\ [][p_op' = "new_checked" => UNCHANGED <<txVars, rxVars, canVars, oldVars>>]_vars
\* (false, 3, 5, 2, 1) was accepted.
C17_Witness ==
    /\ p_op = "new_checked"
    /\ p_in = [cclks |-> FALSE, brp_scale |-> 3, tseg1_tq |-> 5,
               tseg2_tq |-> 2, sjw_tq |-> 1]
    /\ p_out.kind = "Some"

\* C18: bit i of mier() is set exactly when mailbox i's interrupt flag is
\* enabled, and bit i of mkivlr() exactly when mailbox i is a receive
\* mailbox with mask_valid false; the default config with mailbox 0 made a
\* receiver gives 0 for both.
C18_MierMkivlr ==
    p_op = "mier_mkivlr" =>
        /\ \A i \in Mailboxes :
              /\ (i \in p_out.mier) <=> p_in[i].interrupt
              /\ (i \in p_out.mkivlr) <=>
                    (p_in[i].rx /\ p_in[i].mask_valid = FALSE)
        /\ p_in = SetMailboxReceiver(ConfigDefault, 0) =>
              (p_out.mier = {} /\ p_out.mkivlr = {})
\* The default config with mailbox 0 made a receiver was evaluated.
C18_Witness ==
    /\ p_op = "mier_mkivlr"
    /\ p_in = SetMailboxReceiver(ConfigDefault, 0)
    /\ p_in[0].rx /\ ~p_in[1].rx
    /\ p_out = [mier |-> {}, mkivlr |-> {}]

\* ------------------------------------------ construction and setup claims
\* C19: Can::new requests Reset mode, observes STR.RSTST set, writes the
\* bit-timing register with its bit_config argument and requests Halt
\* mode, in that order: BCR is written only by new, once, while reset mode
\* is requested and RSTST is set, and new returns with Halt requested.
C19_Steps ==
    /\ (n_pc = "n_poll" /\ n_pc' # "n_poll") => (can_rstst /\ can_mode = "Reset")
    /\ can_bcr' # can_bcr =>
          /\ can_bcr = BcrUnwritten
          /\ can_bcr' = n_bit_config
          /\ can_rstst /\ can_mode = "Reset"
          /\ can_mode' = "Reset"
    /\ (n_pc' = "done" /\ n_pc # "done") =>
          (can_mode' = "Halt" /\ can_bcr' = n_bit_config)
    /\ (can_mode' = "Reset" /\ can_mode # "Reset") => can_bcr = BcrUnwritten
C19_NewOrder ==
    /\ [][C19_Steps]_vars
    /\ [](n_pc = "n_reset" => can_bcr = BcrUnwritten)
    /\ [](n_pc \in {"n_poll", "n_bcr", "n_halt"} => can_mode = "Reset")
    /\ [](n_pc \in {"n_halt", "done"} <=> can_bcr # BcrUnwritten)
\* new has just returned: BCR holds the second bit_config, halt mode is
\* requested and the peripheral has not left reset mode yet.
C19_Witness ==
    /\ n_pc = "done" /\ can_mode = "Halt" /\ can_rstst
    /\ can_bcr = BitConfigNewChecked(TRUE, 1024, 16, 8, 4)
    /\ c_pc = "idle" /\ can_mkr = MkrUnwritten

\* C20: configure_mailboxes requests Halt mode before it writes a mask or
\* mailbox register, writes the 8 mask registers, MIER = config.mier() and
\* MKIVLR = config.mkivlr(), and leaves every mailbox control register
\* cleared except for RECREQ, set exactly in the receive mailboxes.
C20_Steps ==
    (can_mkr' # can_mkr \/ can_mier' # can_mier \/ can_mkivlr' # can_mkivlr
        \/ (c_pc # "idle" /\ (can_mctl' # can_mctl \/ can_mb' # can_mb)))
    => (can_mode = "Halt" /\ c_pc \notin {"idle", "c_halt"})
C20_ConfigureMailboxes ==
    /\ [][C20_Steps]_vars
    /\ [](c_pc \in {"c_masks", "c_mier", "c_mkivlr", "c_mailbox", "c_ret"} =>
             can_mode = "Halt")
    /\ [](c_pc = "c_ret" =>
             /\ \A k \in 0 .. 7 : can_mkr[k] = MailboxIdNew
             /\ \A i \in Mailboxes :
                   /\ (i \in can_mier) <=> c_config[i].interrupt
                   /\ (i \in can_mkivlr) <=>
                         (c_config[i].rx /\ c_config[i].mask_valid = FALSE)
                   /\ can_mctl[i] = [newdata |-> FALSE, trmreq |-> FALSE,
                                     recreq |-> c_config[i].rx])
\* configure_mailboxes is about to return from a config in which
\* mailboxes 7 and 31 transmit, the others receive and every interrupt is
\* enabled.
C20_Witness ==
    /\ c_pc = "c_ret" /\ can_mode = "Halt"
    /\ ~c_config[7].rx /\ ~c_config[31].rx /\ c_config[8].rx
    /\ can_mier = Mailboxes
    /\ ~can_mctl[7].recreq /\ can_mctl[8].recreq

\* ------------------------------------------------------------------ C21
\* C21: the filter identifier configure_mailboxes writes for a receive
\* mailbox has IDE clear whenever the identifier-format mode is not the
\* mixed mode and has the IDE of the encoded identifier in mixed mode; its
\* SID and EID are those of the encoded identifier in both cases.
C21_FilterId ==
    p_op = "filter_id" =>
        LET enc == MailboxIdFrom(p_in.id)
        IN  /\ p_out.IDE = (p_in.idfm = IdfmMixed /\ enc.IDE)
            /\ p_out.SID = enc.SID
            /\ p_out.EID = enc.EID

\* An extended identifier is written in mixed mode with IDE kept.
C21_Witness ==
    /\ p_op = "filter_id"
    /\ p_in.idfm = IdfmMixed
    /\ p_in.id = [kind |-> "Extended", raw |-> 179422]
    /\ p_out.IDE

\* ------------------------------------------------------------------ C22
\* The CAN0 registers other than the requested mode and the timer-reset
\* bit.
C22_OtherRegs ==
    <<can_tcr, can_mctl, can_mb, can_mier, can_bcr, can_mkr, can_mkivlr,
      can_idfm, can_msmr>>

C22_Steps ==
    \* TCR is written only by a test-mode function, after its halt request
    /\ can_tcr' # can_tcr =>
          /\ m_pc = "m_tcr"
          /\ can_mode = "Halt"
    /\ (m_pc = "m_tcr" /\ m_pc' = "idle") => can_tcr' = TestTcr(m_fn)
    \* between the call and the halt request TCR is not written
    /\ m_pc = "m_halt" => (can_tcr' = can_tcr /\ m_pc' \in {"m_halt", "m_tcr"})
    \* start(): only the mode and the timer-reset bit change
    /\ (can_mode' = "Operation" /\ can_mode # "Operation") =>
          /\ can_tsrc'
          /\ UNCHANGED C22_OtherRegs

\* C22: each of internal_self_test, external_self_test, listen_only_mode
\* and disable_test_mode requests halt mode before it writes TCR, and a
\* later start() changes the requested mode and the timer-reset bit only,
\* so the TCR value written stays.
C22_TestModes == [][C22_Steps]_vars

\* internal_self_test has returned, start() followed, and TCR still holds
\* the self-test value.
C22_Witness ==
    /\ m_pc = "idle"
    /\ m_fn = "internal_self_test"
    /\ can_mode = "Operation"
    /\ can_tsrc
    /\ can_tcr = [tste |-> TRUE, tstm |-> "11"]

C24_HandlerStep == can_irq /\ ~can_irq'

C24_Steps ==
    C24_HandlerStep =>
        LET mailbox == Mssr(can_mctl)
        IN  /\ mailbox < NumMailboxes =>
                  /\ can_mctl[mailbox].trmreq /\ can_mctl[mailbox].newdata
                  /\ can_mctl'[mailbox] = MctlClear
                  /\ \A i \in Mailboxes \ {mailbox} :
                        can_mctl'[i] = can_mctl[i]
            /\ mailbox >= NumMailboxes => can_mctl' = can_mctl
            /\ \A i \in Mailboxes :
                  ((can_mctl[i].trmreq /\ ~can_mctl[i].newdata)
                      \/ (can_mctl[i].recreq /\ ~can_mctl[i].trmreq))
                  => can_mctl'[i] = can_mctl[i]
            /\ can_mb' = can_mb

\* C24: one run of the transmit-complete handler clears the control
\* register of the mailbox MSSR reports, one that completed a
\* transmission, and of no other; it changes no mailbox when MSSR reports
\* none.  A mailbox whose transmission is requested and not completed, and
\* a receive mailbox, are as they were after the handler.
C24_HandlerClearsOne == [][C24_Steps]_vars

\* The handler has cleared mailbox 1 after its transmission; receive
\* mailbox 0 holds a frame not yet read and the transmission requested in
\* mailbox 2 is not completed.
C24_Witness ==
    /\ ~can_irq
    /\ s_sends = 2 /\ s_pc = "idle"
    /\ can_mctl[1] = MctlClear
    /\ can_mb[1].dlc = 1
    /\ can_mctl[0].recreq /\ can_mctl[0].newdata
    /\ can_mctl[2].trmreq /\ ~can_mctl[2].newdata

\* ------------------------------------------------------------------ C25
\* The statements of the entry point generated for vector irq, and the
\* vectors Binding<h>::interrupt() may return, in an expansion x.
C25_Body(x, irq) ==
    LET fn == CHOOSE f \in Range(x.fns) : f.name = irq IN fn.body

C25_Interrupts(x, h) == {b.interrupt : b \in {c \in x.impls : c.handler = h}}

\* C25: the entry point generated for a vector calls on_interrupt of every
\* handler listed for the vector, once each and in the order listed, with
\* the vector's identifier, and holds no other statement (it clears no
\* flag); Binding<H>::interrupt() is the one vector whose entry point calls
\* H.
C25_BindInterrupts ==
    p_op = "bind_interrupts" =>
        /\ Len(p_out.fns) = Len(p_in)
        /\ \A k \in 1 .. Len(p_in) :
              LET irq == p_in[k].irq
                  listed == p_in[k].handlers
                  body == C25_Body(p_out, irq)
              IN  /\ Len(body) = Len(listed)
                  /\ \A j \in 1 .. Len(listed) :
                        /\ body[j].call = "on_interrupt"
                        /\ body[j].handler = listed[j]
                        /\ body[j].interrupt = irq
                  /\ \A h \in Range(listed) :
                        /\ Cardinality({j \in 1 .. Len(body) :
                                           body[j].handler = h}) = 1
                        /\ C25_Interrupts(p_out, h) = {irq}
        /\ \A b \in p_out.impls :
              \E j \in 1 .. Len(C25_Body(p_out, b.interrupt)) :
                  C25_Body(p_out, b.interrupt)[j].handler = b.handler

\* A vector with two handlers, as in IEL4 => TXI_Handler, TEI_Handler, and
\* a second vector for the CAN handler.
C25_Witness ==
    /\ p_op = "bind_interrupts"
    /\ p_in = <<[irq |-> "IEL4", handlers |-> <<"TXI_Handler", "TEI_Handler">>],
                [irq |-> "IEL8", handlers |-> <<"TxHandler">>]>>
    /\ C25_Body(p_out, "IEL4")[2].handler = "TEI_Handler"
    /\ C25_Interrupts(p_out, "TxHandler") = {"IEL8"}

\* ------------------------------------------------------------------ C26
\* A run of the TX-empty handler that finds the ring buffer empty and
\* takes its else branch: TIE, TEIE and TE are cleared.
C26_DefensiveStep ==
    /\ scr.te /\ scr.tie
    /\ IsEmpty(tx_buf)
    /\ ~scr'.te /\ ~scr'.tie

\* C26: under any interleaving of write, flush and the transmit handlers,
\* the TX-empty handler never runs with an empty TX ring buffer.
C26_NeverEmpty == [][~C26_DefensiveStep]_vars

\* write has pushed a byte and armed the transmitter on the TE it read
\* clear, while the handlers had sent every queued byte: TIE and TE are set
\* over an empty buffer.
C26_ArmedEmpty ==
    /\ w_pc = "w_ret"
    /\ w_len > 0
    /\ scr.te /\ scr.tie
    /\ IsEmpty(tx_buf)

\* ------------------------------------------------------------------ C27
\* C27: every call of write with a non-empty input returns, when each
\* enabled TX interrupt fires and a wait for interrupt resumes only on an
\* interrupt that arrives after the wait began.
C27_WriteReturns ==
    (w_pc = "w_push_slice" /\ w_buf # <<>>) ~> (w_pc = "w_ret")

\* write has parked in its wait for the TX-end interrupt after that
\* interrupt was served: the transmitter is Idle, no TX interrupt is
\* enabled, and the bytes of this write are queued.
C27_LostWakeup ==
    /\ w_pc = "w_parked_tei"
    /\ w_len > 0
    /\ TxBits(scr) = Idle
    /\ ~IsEmpty(tx_buf)

\* ------------------------------------------------------------------ C28
\* C28: every call of flush, made when no write is in progress, returns,
\* when each enabled TX interrupt fires and a wait for interrupt resumes
\* only on an interrupt that arrives after the wait began.
C28_FlushReturns == (w_pc = "f_check") ~> (w_pc = "f_ret")

\* flush has parked after the handlers sent the last byte and ended the
\* transmission: the buffer is empty and no TX interrupt is enabled.
C28_ParkedEmpty ==
    /\ w_pc = "f_parked"
    /\ IsEmpty(tx_buf)
    /\ TxBits(scr) = Idle

\* ------------------------------------------------------------------ C29
\* C29: a read call in progress while the RX buffer holds a byte returns,
\* also when no interrupt occurs after the one that stored the byte.
C29_ReadReturns ==
    (r_pc \notin {"idle", "r_ret"} /\ ~IsEmpty(rx_buf)) ~> (r_pc = "r_ret")

\* read has parked after the RX-data handler stored a byte: it waits while
\* the RX buffer is not empty.
C29_ParkedNonEmpty ==
    /\ r_pc = "r_parked"
    /\ ~IsEmpty(rx_buf)

\* ------------------------------------------------------------------ C30
\* C30: whenever no write call is in progress and the TX ring buffer is
\* not empty, the transmit state is Transmitting (TE and TIE set, TEIE
\* clear).
C30_QueuedMeansTransmitting ==
    (w_pc \in {"idle", "f_check", "f_wfi", "f_parked", "f_ret"}
        /\ ~IsEmpty(tx_buf))
    => TxBits(scr) = Transmitting

\* A write has returned and flush waits while two bytes are queued and the
\* transmitter sends.
C30_Witness ==
    /\ w_pc = "f_parked"
    /\ Count(tx_buf) = 2
    /\ TxBits(scr) = Transmitting
    /\ Len(tx_accepted) >= 3

\* ------------------------------------------------------------------ C31
C31_Steps ==
    /\ \A i \in Mailboxes :
          (can_mctl'[i].trmreq /\ ~can_mctl[i].trmreq) =>
              /\ s_pc = "s_req" /\ i = s_i
              /\ can_mb[i].id = s_frame.id
              /\ can_mb[i].dlc = s_frame.dlc
              /\ \A k \in 0 .. 7 :
                    k < s_frame.dlc => can_mb[i].data[k] = s_frame.data[k]
              /\ can_mctl'[i] =
                    [newdata |-> FALSE, recreq |-> FALSE, trmreq |-> TRUE]
    /\ (s_pc = "s_data" /\ s_pc' # "s_data") =>
          \A k \in 0 .. 7 :
              k >= s_frame.dlc => can_mb'[s_i].data[k] = can_mb[s_i].data[k]

\* C31: send_frame sets the transmit-request bit of the chosen mailbox
\* only after the identifier, the data length code and the first dlc data
\* bytes of the frame are in that mailbox; the data bytes from dlc on are
\* not written, and the control register then holds transmit-request and no
\* other bit.
C31_RequestAfterWrites == [][C31_Steps]_vars

\* Mailbox 0 is requested with the one-byte frame after it carried the
\* two-byte one: its second data byte is still that of the earlier frame.
C31_Witness ==
    /\ can_mctl[0].trmreq
    /\ can_mb[0].dlc = 1
    /\ can_mb[0].data[0] = 255
    /\ can_mb[0].data[1] = 2

\* ------------------------------------------------------------------ C32
\* C32: whatever MailboxConfig was configured, every mailbox in which
\* send_frame requested a transmission becomes idle again (TRMREQ and
\* RECREQ clear) once the transmission has completed.
C32_MailboxFreed ==
    \A i \in Mailboxes :
        can_mctl[i].trmreq ~> (~can_mctl[i].trmreq /\ ~can_mctl[i].recreq)

\* configure_mailboxes has run with a config that enables no interrupt; the
\* transmission requested in mailbox 0 has completed, no vector is pending
\* and the mailbox still holds TRMREQ.
C32_NeverFreed ==
    /\ can_mkr # MkrUnwritten /\ c_pc = "idle"
    /\ can_mier = {}
    /\ can_mctl[0].trmreq /\ can_mctl[0].newdata
    /\ ~can_irq
    /\ s_pc = "idle"

\* ------------------------------------------------------------------ C33
\* The mailboxes the config in effect made receive mailboxes.
C33_Receivers == {i \in Mailboxes : ConfigInEffect[i].rx}

\* C33: after configure_mailboxes, with send_frame and try_receive_frame
\* called in any order while frames arrive and transmissions complete,
\* every receive mailbox has RECREQ set whenever no try_receive_frame call
\* is in progress, send_frame writes only to transmit mailboxes, and the
\* mailbox try_receive_frame takes its frame from is a receive mailbox.
C33_RolesKept ==
    /\ t_pc = "idle" => \A i \in C33_Receivers : can_mctl[i].recreq
    /\ s_pc \in {"s_id", "s_dl", "s_data", "s_req"} => s_i \notin C33_Receivers
    /\ t_pc \in {"t_clear", "t_read", "t_rearm"} => t_i \in C33_Receivers
    /\ (t_pc = "t_ret" /\ t_result = "Some") => t_i \in C33_Receivers

\* A frame was sent from a transmit mailbox and completed, and a
\* try_receive_frame call has returned a frame from receive mailbox 2 of
\* the config with transmit mailboxes 0 and 1.
C33_Witness ==
    /\ C33_Receivers = Mailboxes \ {0, 1}
    /\ t_pc = "idle" /\ t_result = "Some" /\ t_i = 2
    /\ s_pc = "idle" /\ s_result = "Ok"
    /\ can_mctl[0].trmreq /\ can_mctl[0].newdata

\* ------------------------------------------------------------------ C34
\* C34: try_receive_frame completes without an out-of-range access for
\* every value the data-length register of a mailbox can hold, and every
\* frame it returns has dlc in 0..=8.
C34_DlcInRange ==
    /\ t_pc = "t_read" => DlcInRange(can_mb[t_i].dlc)
    /\ (t_pc = "t_ret" /\ t_result = "Some") => t_frame.dlc <= 8

\* try_receive_frame has cleared MCTL of mailbox 0, whose data-length
\* register holds 9, and is about to slice its 8-byte array by it.
C34_SliceOutOfRange ==
    /\ t_pc = "t_read" /\ t_i = 0
    /\ can_mb[0].dlc = 9
    /\ can_mctl[0] = MctlClear

\* ------------------------------------------------------------------ C35
\* One step of the driver, by what it does to the requested mode: it
\* changes only in Can::new (to Reset, then Halt), at the go_to_mode of
\* configure_mailboxes and of a test-mode function (to Halt) and in start
\* (to Operation), never to Sleep or BusOff; Can::new, configure_mailboxes
\* and the test-mode functions return with Halt requested.
C35_Steps ==
    /\ can_mode' # can_mode =>
          /\ can_mode' \notin {"Sleep", "BusOff"}
          /\ n_pc = "n_reset" => can_mode' = "Reset"
          /\ n_pc = "n_halt" => can_mode' = "Halt"
          /\ (c_pc = "c_halt" \/ m_pc = "m_halt") => can_mode' = "Halt"
          /\ (n_pc = "done" /\ c_pc = "idle" /\ m_pc = "idle") =>
                (can_mode' = "Operation" /\ can_tsrc')
          /\ \/ n_pc \in {"n_reset", "n_halt"}
             \/ c_pc = "c_halt"
             \/ m_pc = "m_halt"
             \/ n_pc = "done" /\ c_pc = "idle" /\ m_pc = "idle"
    /\ (n_pc' = "done" /\ n_pc # "done") => can_mode' = "Halt"
    /\ (c_pc' = "idle" /\ c_pc # "idle") => can_mode' = "Halt"
    /\ (m_pc' = "idle" /\ m_pc # "idle") => can_mode' = "Halt"
    /\ (can_tsrc' /\ ~can_tsrc) => can_mode' = "Operation"

\* C35: the mode the control register requests is set by the last driver
\* operation: Halt after Can::new, configure_mailboxes and each test-mode
\* function, Operation after start; no operation requests Sleep or BusOff,
\* and go_to_mode(BusOff) leaves the requested mode as it was.
C35_RequestedMode ==
    /\ [][C35_Steps]_vars
    /\ [](\A ctlr \in CanModes : GoToMode(ctlr, "BusOff") = ctlr)

\* A test-mode function has returned the started controller to Halt: the
\* timer was reset by start, test mode is enabled and Halt is requested.
C35_Witness ==
    /\ can_tsrc /\ can_tcr.tste
    /\ m_pc = "idle" /\ c_pc = "idle" /\ n_pc = "done"
    /\ can_mode = "Halt"

\* ------------------------------------------------------------------ C36
\* C36: outside mixed identifier-format mode, every identifier the driver
\* writes to a mailbox identifier register, by send_frame or as a filter
\* identifier by configure_mailboxes, has its IDE bit clear.
C36_Steps ==
    \A i \in Mailboxes :
        (can_mb'[i].id # can_mb[i].id /\ can_idfm # IdfmMixed) =>
            ~can_mb'[i].id.IDE
C36_IdeCleared == [][C36_Steps]_vars

\* In standard identifier mode send_frame has written the identifier of a
\* frame built from an extended id to mailbox 0, with the IDE bit set.
C36_IdeWritten ==
    /\ can_idfm = IdfmStandard
    /\ s_pc = "s_dl" /\ s_i = 0
    /\ s_frame = FrameNewExtended(1752542, <<>>)
    /\ can_mb[0].id.IDE

\* ------------------------------------------------------------------ C37
\* The w bits from bit lo of a 16-bit half of the register value.
C37_Field(half, lo, w) == (half \div (2 ^ lo)) % (2 ^ w)

\* C37: the register value of an accepted BitConfig holds prescaler - 1 in
\* bits 16..25, tseg1 - 1 in bits 28..31, tseg2 - 1 in bits 8..10, sjw - 1
\* in bits 12..13 and cclks in bit 0, every other bit being 0: each value
\* fits its field, so the parameters are recovered from the register.
C37_RegisterLayout ==
    p_op = "into_bits" =>
        /\ C37_Field(p_out.hi, 0, 10) = p_in.brp_scale - 1
        /\ C37_Field(p_out.hi, 12, 4) = p_in.tseg1_tq - 1
        /\ C37_Field(p_out.lo, 8, 3) = p_in.tseg2_tq - 1
        /\ C37_Field(p_out.lo, 12, 2) = p_in.sjw_tq - 1
        /\ C37_Field(p_out.lo, 0, 1) = (IF p_in.cclks THEN 1 ELSE 0)
        /\ C37_Field(p_out.lo, 1, 7) = 0
        /\ C37_Field(p_out.lo, 11, 1) = 0
        /\ C37_Field(p_out.lo, 14, 2) = 0
        /\ C37_Field(p_out.hi, 10, 2) = 0
        /\ p_out.lo < 65536 /\ p_out.hi < 65536

\* new_checked(true, 1024, 16, 8, 4), every field at its maximum: the
\* register value is 0xF3FF_3701.
C37_Witness ==
    /\ p_op = "into_bits"
    /\ p_in = [cclks |-> TRUE, brp_scale |-> 1024, tseg1_tq |-> 16,
               tseg2_tq |-> 8, sjw_tq |-> 4]
    /\ p_out = [lo |-> 14081, hi |-> 62463]

\* ------------------------------------------------------------------ C38
\* C38: Frame::new returns None exactly when data is longer than 8 bytes;
\* otherwise dlc() is the length of data, data() is data and id() is the
\* id, for every standard id.  Frame::new_remote returns None exactly when
\* dlc is above 8.
C38_FrameNew ==
    /\ p_op = "frame_new" =>
          /\ (p_out.ret = None) <=> (Len(p_in.data) > 8)
          /\ p_out.ret # None =>
                /\ p_out.dlc = Len(p_in.data)
                /\ DOMAIN p_out.data = 0 .. (Len(p_in.data) - 1)
                /\ \A k \in 1 .. Len(p_in.data) : p_out.data[k - 1] = p_in.data[k]
                /\ p_out.id = p_in.id
    /\ p_op = "frame_new_remote" =>
          ((p_out.ret = None) <=> (p_in.dlc > 8))

\* Frame::new(StandardId 2047, 8 bytes) gave a frame of dlc 8.
C38_Witness ==
    /\ p_op = "frame_new"
    /\ p_in = [id |-> [kind |-> "Standard", raw |-> 2047],
               data |-> <<1, 2, 3, 4, 5, 6, 7, 8>>]
    /\ p_out.ret # None
    /\ p_out.dlc = 8

\* ------------------------------------------------------------------ C39
\* C39: a frame built by Frame::new_remote reports is_remote_frame() true,
\* one built by Frame::new reports false.
C39_RemoteFlag ==
    /\ (p_op = "frame_new_remote" /\ p_out.ret # None) => p_out.is_remote
    /\ (p_op = "frame_new" /\ p_out.ret # None) => ~p_out.is_remote

\* Frame::new_remote(StandardId 291, 1) gave a frame whose RTR bit is clear.
C39_NotRemote ==
    /\ p_op = "frame_new_remote"
    /\ p_in = [id |-> [kind |-> "Standard", raw |-> 291], dlc |-> 1]
    /\ p_out.ret # None
    /\ ~p_out.ret.id.RTR
    /\ ~p_out.is_remote

\* ------------------------------------------------------------------ C40
\* One step of serial_print's critical section: the bytes it appends to
\* the buffer are the bytes of the argument that follow the index bytes
\* pushed in earlier rounds, in order; it stops short only on a full
\* buffer, and then index counts the bytes pushed so far; serial_print
\* returns only from a round that pushed the last byte.
C40_Push ==
    (o_pc = "o_loop" /\ o_pc' # "o_loop") =>
        LET n == Len(o_buf') - Len(o_buf)
        IN  /\ n >= 0 /\ o_index + n <= Len(o_str)
            /\ o_buf' = o_buf \o SubSeq(o_str, o_index + 1, o_index + n)
            /\ o_pc' = "idle" <=> o_index + n = Len(o_str)
            /\ o_pc' # "idle" =>
                  /\ o_pc' = "o_wfi"
                  /\ Len(o_buf') = OldTxCap
                  /\ o_index' = o_index + n

\* Only the critical section of serial_print adds to the buffer, and only
\* a write to TDR takes from it, the oldest byte.
C40_Buffer ==
    o_buf' # o_buf =>
        \/ o_pc = "o_loop" /\ o_pc' # "o_loop"
        \/ o_buf # <<>> /\ o_buf' = Tail(o_buf) /\ o_tdr' = Head(o_buf)
              /\ o_sent' = o_sent + 1

====
